---- MODULE Spec2Model ----
(***************************************************************************)
(* Progress synchronisation and health reporting of the VPS agent          *)
(* supervisor (vps_entrypoint.py, src/local_metrics.py).                   *)
(*                                                                         *)
(* The module holds several specifications over one set of variables:      *)
(*   SpecStore     concurrent callers of LocalMetricsPublisher             *)
(*   SpecRecon     repeated post_feature_progress passes over a ledger     *)
(*                 that the build subprocess mutates                       *)
(*   SpecRegistry  repeated create_feature_issues calls against a tracker  *)
(*   SpecStamp     repeated assign_issue_numbers_to_tests calls            *)
(*   SpecStampRace assign_issue_numbers_to_tests step by step, next to the *)
(*                 subprocess                                              *)
(*   SpecPublisher one caller making publisher calls one after the other   *)
(*   SpecErrors    one caller making publish_error calls one after the     *)
(*                 other                                                   *)
(*   SpecShots     repeated post_screenshots_to_issue calls over a         *)
(*                 directory the subprocess adds screenshots to            *)
(*   SpecLoop      main from the start of run_agent_with_monitoring to its *)
(*                 return, next to the subprocess                          *)
(* Each specification leaves the variables of the others at their idle     *)
(* value.                                                                  *)
(***************************************************************************)
EXTENDS Integers, Sequences, FiniteSets, TLC

VARIABLES
  \* ---- status store (src/local_metrics.py) ----
  file,        \* content of the status file
  lockOwner,   \* holder of the flock on the status file, or NoOwner
  enabled,     \* LocalMetricsPublisher.enabled
  now,         \* wall clock read by datetime.now(): advances with every call
  spc,         \* position of each caller inside _update_metrics/_write_metrics
  kwargs,      \* kwargs of the call each caller is in (or of its last call)
  metrics,     \* local variable `metrics` of each caller
  flushed,     \* whether json.dump's output has reached the file already
  ret,         \* return value of each caller's last call
  ncalls,      \* number of calls each caller has started
  \* ---- ledger, tracker and reconciler (vps_entrypoint.py) ----
  tests_json,     \* content of the file at tests_json_path (the ledger)
  flips,          \* number of times the subprocess has rewritten the ledger
  last_progress,  \* run_agent_with_monitoring.last_progress
  issues,         \* the remote tracker: issue number -> issue
  repoLabels,     \* labels that exist in the remote repository
  passLog,        \* one entry per reconciliation pass made so far
  callLog,        \* one entry per create_feature_issues call made so far
  stampMap,       \* feature_to_issue handed to assign_issue_numbers_to_tests
  stampLog,       \* ledger content after each stamping made so far
  \* ---- positions inside the steps of the supervisor ----
  stamping,       \* assign_issue_numbers_to_tests: position and local `tests`
  \* ---- screenshots (vps_entrypoint.py) ----
  screenshots_dir,       \* the directory of screenshots and the files in it
  uploaded_screenshots,  \* the global set of hashes already posted
  shotLog,               \* one entry per post_screenshots_to_issue call so far
  \* ---- the publisher and its sequential caller (src/local_metrics.py) ----
  _total_commits,  \* LocalMetricsPublisher._total_commits
  op,              \* the publisher call under way: name, time, snapshot before
  opLog,           \* the publisher calls that have returned, in order
  \* ---- main and the monitoring loop (vps_entrypoint.py) ----
  agent,                   \* the subprocess: alive, or exited with a code
  mpc,                     \* position of main
  feature_issues_created,  \* run_agent_with_monitoring.feature_issues_created
  featureToIssue,          \* run_agent_with_monitoring.feature_to_issue
  exit_code,               \* main.exit_code
  stop_heartbeat,          \* whether the event stop_heartbeat is set
  session_state,           \* status in session_state.json
  commitPosts,             \* number of post_commits_to_issue calls made
  tickLog,                 \* one entry per reconciliation tick so far
  \* ---- the start of main and the heartbeat thread (vps_entrypoint.py) ----
  cfg,                \* what main finds: payload, credentials, failures to come
  metrics_publisher,  \* main.metrics_publisher: None or the publisher
  hpc,                \* position of the heartbeat thread
  beats,              \* iterations of heartbeat_loop started so far
  \* ---- pure steps of the supervisor and their inputs ----
  extracted,          \* result of the last extract_features_from_tests call
  environ,            \* os.environ of the supervisor
  auth,               \* auth_type and auth_token handed to the launcher
  child_env,          \* env handed to subprocess.Popen
  \* ---- SSHAgentInvoker.connect (.github/scripts/ssh_invoke.py) ----
  max_retries,        \* SSHAgentInvoker.max_retries
  attempt,            \* the loop variable of connect
  cpc,                \* position of connect, or the value it returned
  tried,              \* outcome of each client.connect call made so far
  slept               \* argument of each time.sleep call made so far

storeVars == <<file, lockOwner, enabled, now, spc, kwargs, metrics, flushed, ret, ncalls>>
ledgerVars == <<tests_json, flips, last_progress, issues, repoLabels, passLog, callLog, stampMap, stampLog>>
stampVars == <<stamping>>
shotVars == <<screenshots_dir, uploaded_screenshots, shotLog>>
pubVars == <<_total_commits, op, opLog>>
loopVars == <<agent, mpc, feature_issues_created, featureToIssue, exit_code,
              stop_heartbeat, session_state, commitPosts, tickLog>>
startVars == <<cfg, metrics_publisher>>
hbVars == <<hpc, beats>>
pureVars == <<extracted, environ, auth, child_env>>
connVars == <<max_retries, attempt, cpc, tried, slept>>
sideVars == <<startVars, hbVars, pureVars, connVars>>
extVars == <<stampVars, shotVars, pubVars, loopVars, sideVars>>
vars == <<storeVars, ledgerVars, extVars>>

(***************************************************************************)
(* Bounds                                                                  *)
(***************************************************************************)
MaxUpdates == 1      \* calls per caller of the status store

(***************************************************************************)
(* Status store: LocalMetricsPublisher                                     *)
(***************************************************************************)
Callers == {"heartbeat", "main"}
NoOwner == "none"

EmptyDict == <<>>

\* The status file: absent, zero bytes long (just truncated by open(.., 'w')),
\* a JSON object, or bytes that do not parse.
Missing == [kind |-> "missing", data |-> EmptyDict]
Truncated == [kind |-> "empty", data |-> EmptyDict]
Corrupt == [kind |-> "corrupt", data |-> EmptyDict]
Json(m) == [kind |-> "json", data |-> m]

\* assignment in place of update: the old keys are dropped
DictUpdate_Replace(d, other) == other

\* dict.update(other): keys of `other` win
DictUpdate(d, other) == other @@ d

\* _read_metrics: {} unless the file exists and parses
_read_metrics(f) == IF f.kind = "json" THEN f.data ELSE EmptyDict

\* the snapshot publish_session_started writes
StartedSnapshot(t) ==
  [current_issue |-> 1, session_id |-> "s", status |-> "running",
   mode |-> "full_build", session_started |-> t, last_heartbeat |-> t,
   total_commits |-> 0, elapsed_hours |-> 0, cost_usd |-> 0, api_calls |-> 0,
   input_tokens |-> 0, output_tokens |-> 0]

\* kwargs of the publisher calls made while the session runs
SessionHours == 7
ProgressKwargs(t) ==
  [elapsed_hours |-> t, remaining_hours |-> IF SessionHours > t THEN SessionHours - t ELSE 0,
   cost_usd |-> 0, api_calls |-> 0, input_tokens |-> 0, output_tokens |-> 0,
   total_commits |-> 0, last_heartbeat |-> t]
\* the heartbeat without its status field
HeartbeatKwargs_NoStatus(t) == [last_heartbeat |-> t]
HeartbeatKwargs(t) == [last_heartbeat |-> t, status |-> "running"]
CompletedKwargs(t, code) ==
  [status |-> "completed", exit_code |-> code, duration_seconds |-> t,
   session_completed |-> t]

\* the calls each caller makes: the heartbeat thread publishes progress and
\* heartbeat, main publishes completion
CallsOf(p, t) ==
  IF p = "heartbeat" THEN {ProgressKwargs(t), HeartbeatKwargs(t)}
  ELSE {CompletedKwargs(t, c) : c \in {0, 1}}

\* a caller enters _update_metrics(**kw); the timestamps among the kwargs are
\* taken from the clock, which has moved on since the previous call
Call(p) ==
  /\ spc[p] = "idle"
  /\ ncalls[p] < MaxUpdates
  /\ now' = now + 1
  /\ \E kw \in CallsOf(p, now') :
       kwargs' = [kwargs EXCEPT ![p] = kw]
  /\ spc' = [spc EXCEPT ![p] = "read"]
  /\ ncalls' = [ncalls EXCEPT ![p] = @ + 1]
  /\ UNCHANGED <<file, lockOwner, enabled, metrics, flushed, ret>>

\* metrics = self._read_metrics()
Read(p) ==
  /\ spc[p] = "read"
  /\ metrics' = [metrics EXCEPT ![p] = _read_metrics(file)]
  /\ spc' = [spc EXCEPT ![p] = "merge"]
  /\ UNCHANGED <<file, lockOwner, enabled, now, kwargs, flushed, ret, ncalls>>

\* metrics.update(kwargs); metrics["last_updated"] = now
Merge(p) ==
  /\ spc[p] = "merge"
  /\ metrics' = [metrics EXCEPT ![p] =
                   DictUpdate(DictUpdate(@, kwargs[p]), [last_updated |-> now])]
  /\ spc' = [spc EXCEPT ![p] = "open"]
  /\ UNCHANGED <<file, lockOwner, enabled, now, kwargs, flushed, ret, ncalls>>

\* _write_metrics, disabled store: return False
WriteDisabled(p) ==
  /\ spc[p] = "open"
  /\ ~enabled
  /\ spc' = [spc EXCEPT ![p] = "idle"]
  /\ ret' = [ret EXCEPT ![p] = FALSE]
  /\ UNCHANGED <<file, lockOwner, enabled, now, kwargs, metrics, flushed, ncalls>>

\* open(self.metrics_file, 'w'): the file is truncated before any lock is taken
Open(p) ==
  /\ spc[p] = "open"
  /\ enabled
  /\ file' = Truncated
  /\ flushed' = [flushed EXCEPT ![p] = FALSE]
  /\ spc' = [spc EXCEPT ![p] = "flock"]
  /\ UNCHANGED <<lockOwner, enabled, now, kwargs, metrics, ret, ncalls>>

\* mkdir or open raises: caught, return False
OpenFails(p) ==
  /\ spc[p] = "open"
  /\ enabled
  /\ spc' = [spc EXCEPT ![p] = "idle"]
  /\ ret' = [ret EXCEPT ![p] = FALSE]
  /\ UNCHANGED <<file, lockOwner, enabled, now, kwargs, metrics, flushed, ncalls>>

\* fcntl.flock(f.fileno(), LOCK_EX): blocks while another descriptor holds it
Flock(p) ==
  /\ spc[p] = "flock"
  /\ lockOwner = NoOwner
  /\ lockOwner' = p
  /\ spc' = [spc EXCEPT ![p] = "dump"]
  /\ UNCHANGED <<file, enabled, now, kwargs, metrics, flushed, ret, ncalls>>

\* The bytes of this caller's snapshot reach the file at offset 0 of its own
\* descriptor.  Onto a zero-length file the result is the snapshot; onto bytes
\* another descriptor has written since the truncation the result is the
\* snapshot or, when the other content is longer, the snapshot followed by the
\* tail of the other content, which does not parse.
WriteOutcomes(f, m) ==
  IF f.kind = "json" \/ f.kind = "corrupt" THEN {Json(m), Corrupt} ELSE {Json(m)}

\* json.dump(metrics, f, indent=2): the text goes to the file object's buffer
\* and reaches the file now (buffer full) or when the file is closed
Dump(p) ==
  /\ spc[p] = "dump"
  /\ \E fl \in BOOLEAN :
       /\ flushed' = [flushed EXCEPT ![p] = fl]
       /\ IF fl THEN file' \in WriteOutcomes(file, metrics[p]) ELSE file' = file
  /\ spc' = [spc EXCEPT ![p] = "unlock"]
  /\ UNCHANGED <<lockOwner, enabled, now, kwargs, metrics, ret, ncalls>>

\* finally: fcntl.flock(f.fileno(), LOCK_UN)
Unlock(p) ==
  /\ spc[p] = "unlock"
  /\ lockOwner' = NoOwner
  /\ spc' = [spc EXCEPT ![p] = "close"]
  /\ UNCHANGED <<file, enabled, now, kwargs, metrics, flushed, ret, ncalls>>

\* leaving `with open(...)`: the file is closed, which flushes the buffer;
\* return True
Close(p) ==
  /\ spc[p] = "close"
  /\ IF flushed[p] THEN file' = file ELSE file' \in WriteOutcomes(file, metrics[p])
  /\ flushed' = [flushed EXCEPT ![p] = TRUE]
  /\ spc' = [spc EXCEPT ![p] = "idle"]
  /\ ret' = [ret EXCEPT ![p] = TRUE]
  /\ UNCHANGED <<lockOwner, enabled, now, kwargs, metrics, ncalls>>

StoreIdle ==
  /\ file = Missing
  /\ lockOwner = NoOwner
  /\ enabled = TRUE
  /\ now = 0
  /\ spc = [p \in Callers |-> "idle"]
  /\ kwargs = [p \in Callers |-> EmptyDict]
  /\ metrics = [p \in Callers |-> EmptyDict]
  /\ flushed = [p \in Callers |-> TRUE]
  /\ ret = [p \in Callers |-> FALSE]
  /\ ncalls = [p \in Callers |-> 0]

LedgerIdle ==
  /\ tests_json = [kind |-> "absent", fmt |-> "raw", recs |-> <<>>]
  /\ flips = 0
  /\ last_progress = <<>>
  /\ issues = <<>>
  /\ repoLabels = {}
  /\ passLog = <<>>
  /\ callLog = <<>>
  /\ stampMap = <<>>
  /\ stampLog = <<>>

\* no step of the supervisor is under way
NotStamping == [pc |-> "idle", tests |-> <<>>]
\* the directory of screenshots does not exist yet
NoScreenshotsDir == [exists |-> FALSE, files |-> {}]
\* the subprocess has not been started; main has no exit code yet
NoExitCode == -1
NotStarted == [alive |-> FALSE, returncode |-> NoExitCode]
\* no publisher call is under way
NoOp == [name |-> "none", at |-> 0, before |-> EmptyDict, ret |-> FALSE]
\* main has not been given its inputs; the heartbeat thread does not exist
NoCfg == [payload |-> "none", oauth |-> FALSE, api_key |-> FALSE, github |-> FALSE,
          available |-> FALSE, fails |-> "none"]
\* no launcher has been called
NoAuth == [type |-> "none", token |-> "none"]
NoEnv == <<>>
NotExtracted == [done |-> FALSE, features |-> <<>>]
StartIdle ==
  /\ cfg = NoCfg
  /\ metrics_publisher = FALSE
HbIdle ==
  /\ hpc = "none"
  /\ beats = 0
PureIdle ==
  /\ extracted = NotExtracted
  /\ environ = NoEnv
  /\ auth = NoAuth
  /\ child_env = NoEnv
\* connect has not been called
ConnIdle ==
  /\ max_retries = 0
  /\ attempt = 0
  /\ cpc = "none"
  /\ tried = <<>>
  /\ slept = <<>>
SideIdle == StartIdle /\ HbIdle /\ PureIdle /\ ConnIdle
WorkIdle ==
  /\ stamping = NotStamping
  /\ screenshots_dir = NoScreenshotsDir
  /\ uploaded_screenshots = {}
  /\ shotLog = <<>>
  /\ _total_commits = 0
  /\ op = NoOp
  /\ opLog = <<>>
StepsIdle == SideIdle /\ WorkIdle
\* main has not reached run_agent_with_monitoring
LoopIdle ==
  /\ agent = NotStarted
  /\ mpc = "setup"
  /\ feature_issues_created = FALSE
  /\ featureToIssue = <<>>
  /\ exit_code = NoExitCode
  /\ stop_heartbeat = FALSE
  /\ session_state = "none"
  /\ commitPosts = 0
  /\ tickLog = <<>>
ExtIdle == StepsIdle /\ LoopIdle

\* The publisher has been constructed and main has published the session
\* start (or the start write failed and the file is absent).
InitStore ==
  /\ file \in {Missing, Json(StartedSnapshot(0))}
  /\ lockOwner = NoOwner
  /\ enabled \in BOOLEAN
  /\ now = 0
  /\ spc = [p \in Callers |-> "idle"]
  /\ kwargs = [p \in Callers |-> EmptyDict]
  /\ metrics = [p \in Callers |-> EmptyDict]
  /\ flushed = [p \in Callers |-> TRUE]
  /\ ret = [p \in Callers |-> FALSE]
  /\ ncalls = [p \in Callers |-> 0]
  /\ LedgerIdle
  /\ ExtIdle

NextStore ==
  \/ \E p \in Callers : Call(p) /\ UNCHANGED <<ledgerVars, extVars>>
  \/ \E p \in Callers : Read(p) /\ UNCHANGED <<ledgerVars, extVars>>
  \/ \E p \in Callers : Merge(p) /\ UNCHANGED <<ledgerVars, extVars>>
  \/ \E p \in Callers : WriteDisabled(p) /\ UNCHANGED <<ledgerVars, extVars>>
  \/ \E p \in Callers : Open(p) /\ UNCHANGED <<ledgerVars, extVars>>
  \/ \E p \in Callers : OpenFails(p) /\ UNCHANGED <<ledgerVars, extVars>>
  \/ \E p \in Callers : Flock(p) /\ UNCHANGED <<ledgerVars, extVars>>
  \/ \E p \in Callers : Dump(p) /\ UNCHANGED <<ledgerVars, extVars>>
  \/ \E p \in Callers : Unlock(p) /\ UNCHANGED <<ledgerVars, extVars>>
  \/ \E p \in Callers : Close(p) /\ UNCHANGED <<ledgerVars, extVars>>

SpecStore == InitStore /\ [][NextStore]_vars

(***************************************************************************)
(* Claims about the status store                                           *)
(***************************************************************************)
\* both callers have made one update each, both have returned True
BothReturned ==
  \A p \in Callers : spc[p] = "idle" /\ ncalls[p] = 1 /\ ret[p]

DisjointFields == DOMAIN kwargs["heartbeat"] \cap DOMAIN kwargs["main"] = {}

\* C1: two concurrent _update_metrics calls with disjoint field sets: the
\* snapshot read after both have returned contains the fields written by both.
C1_DisjointUpdatesBothSurvive ==
  (BothReturned /\ DisjointFields) =>
    \A p \in Callers : \A f \in DOMAIN kwargs[p] :
      /\ f \in DOMAIN _read_metrics(file)
      /\ _read_metrics(file)[f] = kwargs[p][f]

\* the caller has read the existing snapshot and has not finished its write
InUpdate(p) == spc[p] \in {"merge", "open", "flock", "dump", "unlock", "close"}
\* the caller has truncated the file and its content has not reached it yet
HalfWritten(q) == spc[q] \in {"flock", "dump", "unlock", "close"} /\ ~flushed[q]
\* steps of a caller that change the file
Truncates(q) == spc[q] = "open" /\ spc'[q] = "flock"
WritesFile(q) == spc[q] \in {"dump", "close"} /\ spc'[q] # spc[q] /\ file' # file
Observes(p) == spc[p] = "read" /\ spc'[p] = "merge"

\* C2: every write holds the exclusive lock for its whole read-merge-write:
\* no other writer truncates or writes the file between an update's read and
\* the end of its write, and no update reads the file while another writer
\* has truncated it and not yet written its content.
C2_ExclusiveReadMergeWrite ==
  [][\A p \in Callers : \A q \in Callers \ {p} :
       /\ InUpdate(p) => ~Truncates(q) /\ ~WritesFile(q)
       /\ Observes(p) => ~HalfWritten(q)]_vars

(***************************************************************************)
(* Ledger and remote tracker                                               *)
(***************************************************************************)
MaxTests == 2        \* records in the ledger
MaxIssue == 2        \* issues in the tracker
MaxPasses == 2       \* reconciliation passes in one session
MaxFlips == 2        \* rewrites of the ledger by the subprocess

\* the features the ledger has tests for
Features == {"login", "cart"}

\* A test record.  issueNumber 0 stands for a record without that key and
\* feature "" for a record without a feature.
NoIssue == 0
NoFeature == ""
TestRecord(f, n, p) == [feature |-> f, issueNumber |-> n, passes |-> p]

\* The ledger file: absent, not parsable, or a JSON array of records, laid
\* out as its writer chose ("raw") or as json.dumps(tests, indent=2) does.
LedgerFile(fmt, recs) == [kind |-> "json", fmt |-> fmt, recs |-> recs]
AbsentLedger == [kind |-> "absent", fmt |-> "raw", recs |-> <<>>]

\* json.loads(tests_json_path.read_text())
LoadTests(f) == f.recs

\* an issue of the tracker
Issue(state, labels) == [state |-> state, labels |-> labels, comments |-> <<>>]
FeatureLabel(feature_id) == "feature:" \o feature_id

(***************************************************************************)
(* post_feature_progress                                                   *)
(***************************************************************************)
\* by_issue: the issue numbers of the stamped records, in order of first
\* appearance (dict insertion order)
RECURSIVE ByIssueKeys(_, _)
ByIssueKeys(ts, seen) ==
  IF ts = <<>> THEN <<>>
  ELSE LET issue_num == Head(ts).issueNumber
       IN IF issue_num # NoIssue /\ issue_num \notin seen
            THEN <<issue_num>> \o ByIssueKeys(Tail(ts), seen \cup {issue_num})
            ELSE ByIssueKeys(Tail(ts), seen)

\* by_issue[issue_num]
FeatureTests(ts, issue_num) == SelectSeq(ts, LAMBDA t : t.issueNumber = issue_num)
\* passed = sum(1 for t in feature_tests if t.get('passes'))
Passed(feature_tests) == Len(SelectSeq(feature_tests, LAMBDA t : t.passes))

\* the comparison with last_progress left out: every pass posts
NoChange_Never(lp, issue_num, passed) == FALSE

\* last_progress.get(issue_num) == passed
NoChange(lp, issue_num, passed) == issue_num \in DOMAIN lp /\ lp[issue_num] = passed

\* `or` in place of `and`
FeatureComplete_Or(passed, total) == passed = total \/ total > 0

\* passed == total and total > 0
FeatureComplete(passed, total) == passed = total /\ total > 0

\* pct = (passed / total * 100) if total > 0 else 0, as "{pct:.0f}" prints it
\* (round half to even; the float result agrees with the exact one for every
\* total below 40)
PctShown(passed, total) ==
  IF total > 0
    THEN LET q == (100 * passed) \div total
             r == (100 * passed) % total
         IN IF 2 * r > total THEN q + 1
            ELSE IF 2 * r = total THEN q + (q % 2)
            ELSE q
    ELSE 0
\* the bar taken from the percentage as printed
BarFilled_Rounded(passed, total) == PctShown(passed, total) \div 5

\* bar_filled = int(pct / 5)
BarFilled(passed, total) == IF total > 0 THEN (20 * passed) \div total ELSE 0
BarWidth == 20

\* s * n for a string s: n copies, none when n is negative
Copies(n) == IF n > 0 THEN n ELSE 0

\* The progress comment: the counts and the percentage it prints, the filled
\* cells and all cells of its bar, and the pass that posted it.
ProgressComment(passed, total, at) ==
  [kind |-> "progress", passed |-> passed, total |-> total,
   pct |-> PctShown(passed, total), filled |-> Copies(BarFilled(passed, total)),
   cells |-> Copies(BarFilled(passed, total)) + Copies(BarWidth - BarFilled(passed, total)),
   at |-> at]
\* The completion comment prints no counts; passed and total record the
\* counts it was posted for.
CompletionComment(passed, total, at) ==
  [kind |-> "complete", passed |-> passed, total |-> total, pct |-> 100,
   filled |-> 0, cells |-> 0, at |-> at]

\* agent-building not filtered out
NewLabels_KeepsBuilding(current_labels) == current_labels \cup {"agent-complete"}

\* new_labels: current labels without agent-building, with agent-complete
NewLabels(current_labels) ==
  (current_labels \ {"agent-building"}) \cup {"agent-complete"}

\* One tracker call inside the try block.  st.calls counts the calls made so
\* far; the call numbered failAt raises, as does a call on an issue the
\* tracker does not have.  `after` is the state when the call succeeds.
TrackerCall(st, issue_num, failAt, after) ==
  IF st.calls + 1 = failAt \/ (issue_num # NoIssue /\ issue_num \notin DOMAIN st.issues)
    THEN [st EXCEPT !.calls = @ + 1, !.raised = TRUE, !.raisedAt = issue_num]
    ELSE [after EXCEPT !.calls = st.calls + 1]

\* the body of the loop `for issue_num, feature_tests in by_issue.items()`
ProgressOfIssue(st, ts, issue_num, failAt, at) ==
  LET feature_tests == FeatureTests(ts, issue_num)
      passed == Passed(feature_tests)
      total == Len(feature_tests)
  IN IF NoChange(st.lp, issue_num, passed) THEN st
     ELSE
       LET s1 == [st EXCEPT !.lp = (issue_num :> passed) @@ @]
           \* issue = repo.get_issue(issue_num)
           s2 == TrackerCall(s1, issue_num, failAt, s1)
       IN IF s2.raised THEN s2
          ELSE IF FeatureComplete(passed, total)
            THEN
              LET \* issue.create_comment("All tests passing! ...")
                  s3 == TrackerCall(s2, issue_num, failAt,
                          [s2 EXCEPT !.issues[issue_num].comments =
                                       Append(@, CompletionComment(passed, total, at))])
                  \* issue.edit(state='closed')
                  s4 == TrackerCall(s3, issue_num, failAt,
                          [s3 EXCEPT !.issues[issue_num].state = "closed"])
                  \* issue.set_labels(*new_labels)
                  s5 == TrackerCall(s4, issue_num, failAt,
                          [s4 EXCEPT !.issues[issue_num].labels = NewLabels(@)])
              IN IF s3.raised THEN s3 ELSE IF s4.raised THEN s4 ELSE s5
            ELSE
              \* issue.create_comment(comment)
              TrackerCall(s2, issue_num, failAt,
                [s2 EXCEPT !.issues[issue_num].comments =
                             Append(@, ProgressComment(passed, total, at))])

\* the loop: an exception leaves it
RECURSIVE ProgressLoop(_, _, _, _, _)
ProgressLoop(st, ts, keys, failAt, at) ==
  IF keys = <<>> \/ st.raised THEN st
  ELSE ProgressLoop(ProgressOfIssue(st, ts, Head(keys), failAt, at),
                    ts, Tail(keys), failAt, at)

\* post_feature_progress(tests, github_repo, github_token, last_progress):
\* the returned last_progress and the tracker afterwards.  Call 1 is
\* gh.get_repo(github_repo).
post_feature_progress(ts, lp, iss, failAt, at) ==
  LET st0 == [lp |-> lp, issues |-> iss, calls |-> 0, raised |-> FALSE, raisedAt |-> NoIssue]
      st1 == TrackerCall(st0, NoIssue, failAt, st0)
  IN IF st1.raised THEN st1
     ELSE ProgressLoop(st1, ts, ByIssueKeys(ts, {}), failAt, at)

\* the number of tracker calls the pass makes when none of them raises; the
\* call that raises is one of these (0: none raises)
TrackerCalls(ts, lp, iss) == post_feature_progress(ts, lp, iss, 0, 0).calls

\* One reconciliation pass of the monitoring loop: tests.json is read and,
\* when it holds records, post_feature_progress runs on them.
ReconcilePass ==
  /\ Len(passLog) < MaxPasses
  /\ tests_json.kind = "json"
  /\ LoadTests(tests_json) # <<>>
  /\ \E failAt \in 0..TrackerCalls(LoadTests(tests_json), last_progress, issues) :
       LET ts == LoadTests(tests_json)
           at == Len(passLog) + 1
           r == post_feature_progress(ts, last_progress, issues, failAt, at)
       IN /\ last_progress' = r.lp
          /\ issues' = r.issues
          /\ passLog' = Append(passLog,
                          [tests |-> ts, before |-> last_progress,
                           raised |-> r.raised, raisedAt |-> r.raisedAt])
  /\ UNCHANGED <<tests_json, flips, repoLabels, callLog, stampMap, stampLog>>

\* the build subprocess flips `passes` of one record and rewrites the ledger
SubprocessFlips ==
  /\ flips < MaxFlips
  /\ flips' = flips + 1
  /\ tests_json.kind = "json"
  /\ \E k \in 1..Len(tests_json.recs) :
       tests_json' = [tests_json EXCEPT !.fmt = "raw", !.recs[k].passes = ~@]
  /\ UNCHANGED <<last_progress, issues, repoLabels, passLog, callLog, stampMap, stampLog>>

\* Issue n of the tracker was made for feature FeatureOfIssue(n); the ledger
\* holds tests of the features in Features, stamped with their issue, and
\* tests of a feature that has no issue.  The subprocess writes every test as
\* failing and flips it when it passes.
FeatureOfIssue(n) == IF n = 1 THEN "login" ELSE IF n = 2 THEN "cart" ELSE "search"
RecordChoices ==
  {TestRecord(FeatureOfIssue(n), n, FALSE) :
     n \in {k \in 1..MaxIssue : FeatureOfIssue(k) \in Features}}
    \cup {TestRecord("profile", NoIssue, FALSE)}

\* ledgers of 1..MaxTests records
Ledgers == UNION {[1..n -> RecordChoices] : n \in 1..MaxTests}

\* labels an issue made by create_feature_issues carries; a user has added
\* one more to the odd-numbered ones
IssueLabels(n) ==
  {"mvp-build", "agent-building", FeatureLabel(FeatureOfIssue(n))}
    \cup (IF n % 2 = 1 THEN {"bug"} ELSE {})

InitRecon ==
  /\ StoreIdle
  /\ ExtIdle
  /\ tests_json \in {LedgerFile("indent2", recs) : recs \in Ledgers}
  /\ flips = 0
  /\ last_progress = <<>>
  /\ issues = [n \in 1..MaxIssue |-> Issue("open", IssueLabels(n))]
  /\ repoLabels = {}
  /\ passLog = <<>>
  /\ callLog = <<>>
  /\ stampMap = <<>>
  /\ stampLog = <<>>

NextRecon ==
  \/ ReconcilePass /\ UNCHANGED <<storeVars, extVars>>
  \/ SubprocessFlips /\ UNCHANGED <<storeVars, extVars>>

SpecRecon == InitRecon /\ [][NextRecon]_vars

(***************************************************************************)
(* Claims about the reconciliation pass                                    *)
(***************************************************************************)
\* the records of ledger ts stamped with issue i, by position
Stamped(ts, i) == {k \in 1..Len(ts) : ts[k].issueNumber = i}
PassedCount(ts, i) == Cardinality({k \in Stamped(ts, i) : ts[k].passes})
TotalCount(ts, i) == Cardinality(Stamped(ts, i))
AllPass(ts, i) == Stamped(ts, i) # {} /\ \A k \in Stamped(ts, i) : ts[k].passes
PartlyPass(ts, i) == 0 < PassedCount(ts, i) /\ PassedCount(ts, i) < TotalCount(ts, i)
\* the comments pass n posted to issue i
CommentsOf(n, i) == SelectSeq(issues[i].comments, LAMBDA c : c.at = n)
\* lastSeen[i] before pass n differs from the count pass n computes
Differs(n, i) ==
  i \notin DOMAIN passLog[n].before
    \/ passLog[n].before[i] # PassedCount(passLog[n].tests, i)
Passes == 1..Len(passLog)
TrackerIssues == DOMAIN issues

\* C3: two consecutive passes that compute the same passed count for an issue
\* post at most one comment to that issue between them.
C3_NoDuplicateProgressComment ==
  \A n \in Passes : \A i \in TrackerIssues :
    (/\ n + 1 \in Passes
     /\ Stamped(passLog[n].tests, i) # {}
     /\ Stamped(passLog[n + 1].tests, i) # {}
     /\ PassedCount(passLog[n].tests, i) = PassedCount(passLog[n + 1].tests, i))
    => Len(CommentsOf(n, i)) + Len(CommentsOf(n + 1, i)) <= 1

\* the ledger did not change between two passes, the first posted a comment
\* to an issue and the second posted none
C3_Witness ==
  /\ Len(passLog) = 2
  /\ passLog[1].tests = passLog[2].tests
  /\ ~passLog[1].raised /\ ~passLog[2].raised
  /\ \E i \in TrackerIssues :
       Len(CommentsOf(1, i)) = 1 /\ Len(CommentsOf(2, i)) = 0

\* C4: in a pass a comment is posted to an issue with stamped records iff the
\* fresh passed count differs from lastSeen[issue]; lastSeen[issue] is at
\* every moment the passed count of the last comment posted to the issue.
C4_CommentIffCountDiffers ==
  /\ \A n \in Passes : \A i \in TrackerIssues :
       Stamped(passLog[n].tests, i) # {} =>
         (Len(CommentsOf(n, i)) >= 1 <=> Differs(n, i))
  /\ \A i \in DOMAIN last_progress :
       /\ i \in TrackerIssues
       /\ issues[i].comments # <<>>
       /\ issues[i].comments[Len(issues[i].comments)].passed = last_progress[i]

\* C5: a failing tracker call for an issue leaves lastSeen of that issue as it
\* was before the pass, and the next pass without failure posts the comment
\* that was dropped.
C5_FailureKeepsLastSeen ==
  /\ passLog # <<>> =>
       LET e == passLog[Len(passLog)]
           i == e.raisedAt
       IN (e.raised /\ i # NoIssue) =>
            /\ i \in DOMAIN last_progress <=> i \in DOMAIN e.before
            /\ i \in DOMAIN last_progress => last_progress[i] = e.before[i]
  /\ \A n \in Passes : \A i \in TrackerIssues :
       (/\ n + 1 \in Passes
        /\ passLog[n].raised /\ passLog[n].raisedAt = i
        /\ Differs(n, i)
        /\ CommentsOf(n, i) = <<>>
        /\ ~passLog[n + 1].raised
        /\ PassedCount(passLog[n + 1].tests, i) = PassedCount(passLog[n].tests, i))
       => Len(CommentsOf(n + 1, i)) = 1

\* C6: a failing tracker call for one issue does not keep the other issues
\* whose passed count changed from getting their comment, and their close and
\* relabel when complete, in the same pass.
C6_FailureIsolatedPerIssue ==
  \A n \in Passes : \A i, j \in TrackerIssues :
    (/\ passLog[n].raised /\ passLog[n].raisedAt = i
     /\ j # i
     /\ Stamped(passLog[n].tests, j) # {}
     /\ Differs(n, j))
    => /\ Len(CommentsOf(n, j)) = 1
       /\ AllPass(passLog[n].tests, j) =>
            issues[j].state = "closed" /\ "agent-complete" \in issues[j].labels

\* the passes up to m ran without a tracker failure
NoFailureUpTo(m) == \A k \in 1..m : ~passLog[k].raised
\* pct is 100 * passed / total rounded to a nearest integer
NearestPct(pct, passed, total) ==
  /\ 2 * (100 * passed - pct * total) <= total
  /\ 2 * (pct * total - 100 * passed) <= total

\* C7: records of an issue partly passing at the first pass and all passing
\* at a later one: the first pass posts one progress comment with the literal
\* counts and percentage; the pass that first sees all of them passing posts
\* one completion comment, closes the issue and replaces agent-building by
\* agent-complete, keeping every other label.
C7_ProgressThenCompletion ==
  \A i \in TrackerIssues :
    (passLog # <<>> /\ ~passLog[1].raised /\ PartlyPass(passLog[1].tests, i)) =>
      /\ Len(CommentsOf(1, i)) = 1
      /\ LET c == CommentsOf(1, i)[1]
         IN /\ c.kind = "progress"
            /\ c.passed = PassedCount(passLog[1].tests, i)
            /\ c.total = TotalCount(passLog[1].tests, i)
            /\ NearestPct(c.pct, c.passed, c.total)
            /\ (c.passed = 1 /\ c.total = 2) => c.pct = 50
      /\ \A m \in Passes :
           (/\ m > 1
            /\ NoFailureUpTo(m)
            /\ AllPass(passLog[m].tests, i)
            /\ \A k \in 1..(m - 1) : ~AllPass(passLog[k].tests, i))
           => /\ Len(CommentsOf(m, i)) = 1
              /\ CommentsOf(m, i)[1].kind = "complete"
              /\ issues[i].state = "closed"
              /\ issues[i].labels =
                   (IssueLabels(i) \ {"agent-building"}) \cup {"agent-complete"}

\* issue 1, which carries a label of a user, went from 1/2 to 2/2 over two
\* passes and is closed
C7_Witness ==
  /\ Len(passLog) = 2
  /\ NoFailureUpTo(2)
  /\ PassedCount(passLog[1].tests, 1) = 1 /\ TotalCount(passLog[1].tests, 1) = 2
  /\ AllPass(passLog[2].tests, 1)
  /\ issues[1].state = "closed"
  /\ "bug" \in issues[1].labels

\* C8: no completion comment, close or agent-complete label without at least
\* one record stamped with the issue and all of them passing at that pass.
C8_NoCompletionWithoutPassingRecords ==
  \A i \in TrackerIssues :
    /\ \A k \in 1..Len(issues[i].comments) :
         issues[i].comments[k].kind = "complete" =>
           AllPass(passLog[issues[i].comments[k].at].tests, i)
    /\ (issues[i].state = "closed" \/ "agent-complete" \in issues[i].labels) =>
         \E n \in Passes : AllPass(passLog[n].tests, i)

\* a pass without failure closed one issue and left alone an issue that has
\* no record in the ledger
C8_Witness ==
  /\ passLog # <<>>
  /\ NoFailureUpTo(Len(passLog))
  /\ \E i, j \in TrackerIssues :
       /\ \A n \in Passes : Stamped(passLog[n].tests, i) = {}
       /\ issues[i].state = "open" /\ issues[i].comments = <<>>
       /\ issues[j].state = "closed"

\* C35: an issue whose stamped records all pass is closed and labelled
\* agent-complete at the latest by the first pass without a tracker failure
\* that reads those records: when the last pass ran without failure over
\* the ledger as it is now, every issue whose records all pass is closed and
\* carries agent-complete.
C35_CompleteIssuesGetClosed ==
  \A i \in TrackerIssues :
    (/\ passLog # <<>>
     /\ ~passLog[Len(passLog)].raised
     /\ passLog[Len(passLog)].tests = tests_json.recs
     /\ AllPass(tests_json.recs, i))
    => issues[i].state = "closed" /\ "agent-complete" \in issues[i].labels

\* C36: after a pass that ran without a tracker failure the tracker matches
\* the ledger the pass read: an issue that is closed and carries
\* agent-complete (the reconciler alone closes issues) has stamped records
\* in that ledger and all of them pass.
C36_ClosedIssuesAllPass ==
  \A i \in TrackerIssues :
    (/\ passLog # <<>>
     /\ ~passLog[Len(passLog)].raised
     /\ issues[i].state = "closed"
     /\ "agent-complete" \in issues[i].labels)
    => AllPass(passLog[Len(passLog)].tests, i)

(***************************************************************************)
(* create_feature_issues                                                   *)
(***************************************************************************)
MaxEnsureCalls == 2  \* create_feature_issues calls, over all sessions

\* get_issues without state='all' lists the open issues only
RECURSIVE OpenIssuesWithLabel(_, _, _)
OpenIssuesWithLabel(iss, label_name, n) ==
  IF n = 0 THEN <<>>
  ELSE IF label_name \in iss[n].labels /\ iss[n].state = "open"
    THEN <<n>> \o OpenIssuesWithLabel(iss, label_name, n - 1)
    ELSE OpenIssuesWithLabel(iss, label_name, n - 1)
get_issues_OpenOnly(iss, label_name) == OpenIssuesWithLabel(iss, label_name, Len(iss))

\* repo.get_issues(state='all', labels=[label_name]): the numbers of the
\* issues carrying the label, open or closed, newest first
RECURSIVE IssuesWithLabel(_, _, _)
IssuesWithLabel(iss, label_name, n) ==
  IF n = 0 THEN <<>>
  ELSE IF label_name \in iss[n].labels
    THEN <<n>> \o IssuesWithLabel(iss, label_name, n - 1)
    ELSE IssuesWithLabel(iss, label_name, n - 1)
get_issues(iss, label_name) == IssuesWithLabel(iss, label_name, Len(iss))

\* labels=['mvp-build', 'agent-building', label_name]
NewIssueLabels(label_name) == {"mvp-build", "agent-building", label_name}

\* A tracker call of create_feature_issues that aborts the function when it
\* raises: st.calls counts them and the one numbered failAt raises.
RegistryCall(st, failAt, after) ==
  IF st.calls + 1 = failAt
    THEN [st EXCEPT !.calls = @ + 1, !.raised = TRUE]
    ELSE [after EXCEPT !.calls = st.calls + 1]

\* The body of `for feature_id in features`.  create_label raises when the
\* label exists or when the call fails (labelFails); both are swallowed.
\* create_issue makes the labels it names that do not exist yet.
EnsureIssue(st, feature_id, failAt, labelFails) ==
  LET label_name == FeatureLabel(feature_id)
      \* existing = list(repo.get_issues(state='all', labels=[label_name]))
      s1 == RegistryCall(st, failAt, st)
      existing == get_issues(s1.issues, label_name)
  IN IF s1.raised THEN s1
     ELSE IF existing # <<>>
       THEN [s1 EXCEPT !.map = (feature_id :> existing[1]) @@ @]
       ELSE
         LET \* repo.create_label(name=label_name, ...)
             s2 == IF labelFails THEN s1
                   ELSE [s1 EXCEPT !.repoLabels = @ \cup {label_name}]
             \* issue = repo.create_issue(title, body, labels)
             number == Len(s2.issues) + 1
         IN RegistryCall(s2, failAt,
              [s2 EXCEPT !.issues = Append(@, Issue("open", NewIssueLabels(label_name))),
                         !.repoLabels = @ \cup NewIssueLabels(label_name),
                         !.map = (feature_id :> number) @@ @])

RECURSIVE EnsureLoop(_, _, _, _)
EnsureLoop(st, features, failAt, labelFails) ==
  IF features = <<>> \/ st.raised THEN st
  ELSE EnsureLoop(EnsureIssue(st, Head(features), failAt, labelFails),
                  Tail(features), failAt, labelFails)

\* create_feature_issues(github_repo, github_token, features): the returned
\* feature_to_issue ({} when a call raised) and the tracker afterwards.
\* Call 1 is gh.get_repo(github_repo).
create_feature_issues(features, iss, labels, failAt, labelFails) ==
  LET st0 == [map |-> <<>>, issues |-> iss, repoLabels |-> labels,
              calls |-> 0, raised |-> FALSE]
      st1 == RegistryCall(st0, failAt, st0)
      st2 == EnsureLoop(st1, features, failAt, labelFails)
  IN IF st2.raised THEN [st2 EXCEPT !.map = <<>>] ELSE st2

\* the feature lists extract_features_from_tests can return: no feature twice
FeatureLists ==
  {fs \in UNION {[1..n -> Features] : n \in 1..Cardinality(Features)} :
     \A a, b \in DOMAIN fs : a # b => fs[a] # fs[b]}

\* the number of aborting tracker calls create_feature_issues makes when none
\* of them raises
RegistryCalls(features, iss, labels) ==
  create_feature_issues(features, iss, labels, 0, FALSE).calls

\* One call of create_feature_issues, by this session or by the session that
\* runs after a crash and restart: nothing but the tracker carries over.
EnsureIssues ==
  /\ Len(callLog) < MaxEnsureCalls
  /\ \E features \in FeatureLists, labelFails \in BOOLEAN :
     \E failAt \in 0..RegistryCalls(features, issues, repoLabels) :
       LET r == create_feature_issues(features, issues, repoLabels, failAt, labelFails)
       IN /\ issues' = r.issues
          /\ repoLabels' = r.repoLabels
          /\ callLog' = Append(callLog,
                          [features |-> features, result |-> r.map, raised |-> r.raised,
                           created |-> (Len(issues) + 1)..Len(r.issues)])
  /\ UNCHANGED <<tests_json, flips, last_progress, passLog, stampMap, stampLog>>

\* issue.edit(state='closed') of a reconciliation pass: a feature issue is
\* closed once all its tests pass
IssueCloses ==
  /\ \E n \in DOMAIN issues :
       /\ issues[n].state = "open"
       /\ "agent-building" \in issues[n].labels
       /\ issues' = [issues EXCEPT ![n].state = "closed"]
  /\ UNCHANGED <<tests_json, flips, last_progress, repoLabels, passLog, callLog, stampMap, stampLog>>

\* the tracker holds the issue the session was started for
InitRegistry ==
  /\ StoreIdle
  /\ ExtIdle
  /\ tests_json = AbsentLedger
  /\ flips = 0
  /\ last_progress = <<>>
  /\ issues = <<Issue("open", {"agent"})>>
  /\ repoLabels = {"agent"}
  /\ passLog = <<>>
  /\ callLog = <<>>
  /\ stampMap = <<>>
  /\ stampLog = <<>>

NextRegistry ==
  \/ EnsureIssues /\ UNCHANGED <<storeVars, extVars>>
  \/ IssueCloses /\ UNCHANGED <<storeVars, extVars>>

SpecRegistry == InitRegistry /\ [][NextRegistry]_vars

\* C9: create_feature_issues called twice with the same feature list creates
\* no issue in the second call and returns the same mapping; over any number
\* of calls at most one issue is ever created per feature label.
C9_IdempotentIssueCreation ==
  /\ \A n \in 1..Len(callLog) :
       (/\ n + 1 <= Len(callLog)
        /\ callLog[n].features = callLog[n + 1].features
        /\ ~callLog[n].raised /\ ~callLog[n + 1].raised)
       => /\ callLog[n + 1].created = {}
          /\ callLog[n + 1].result = callLog[n].result
  /\ \A f \in Features :
       Cardinality({k \in DOMAIN issues : FeatureLabel(f) \in issues[k].labels}) <= 1

\* the first call made an issue per feature, one of them was closed, and the
\* second call with the same list returned the same numbers
C9_Witness ==
  /\ Len(callLog) = 2
  /\ callLog[1].features = callLog[2].features
  /\ Len(callLog[1].features) = 2
  /\ Cardinality(callLog[1].created) = 2
  /\ ~callLog[2].raised
  /\ DOMAIN callLog[2].result = Features
  /\ \E k \in callLog[1].created : issues[k].state = "closed"

(***************************************************************************)
(* assign_issue_numbers_to_tests                                           *)
(***************************************************************************)
MaxStamps == 2       \* assign_issue_numbers_to_tests calls

\* `+=` in place of `=`
StampRecord_Adds(test, feature_to_issue) ==
  IF test.feature # NoFeature /\ test.feature \in DOMAIN feature_to_issue
    THEN [test EXCEPT !.issueNumber = @ + feature_to_issue[test.feature]]
    ELSE test

\* the membership test left out: feature_to_issue.get(feature) for every
\* record that has a feature
StampRecord_Get(test, feature_to_issue) ==
  IF test.feature # NoFeature
    THEN [test EXCEPT !.issueNumber =
            IF test.feature \in DOMAIN feature_to_issue
              THEN feature_to_issue[test.feature] ELSE NoIssue]
    ELSE test

\* the loop body: a record whose feature is a key of the map gets its number
StampRecord(test, feature_to_issue) ==
  IF test.feature # NoFeature /\ test.feature \in DOMAIN feature_to_issue
    THEN [test EXCEPT !.issueNumber = feature_to_issue[test.feature]]
    ELSE test

\* assign_issue_numbers_to_tests(tests_json_path, feature_to_issue): the file
\* afterwards.  A file that is absent or does not parse raises before the
\* write and stays as it is.
assign_issue_numbers_to_tests(f, feature_to_issue) ==
  IF f.kind = "json"
    THEN LET ts == LoadTests(f)
         IN LedgerFile("indent2", [k \in 1..Len(ts) |-> StampRecord(ts[k], feature_to_issue)])
    ELSE f

Stamp ==
  /\ Len(stampLog) < MaxStamps
  /\ tests_json' = assign_issue_numbers_to_tests(tests_json, stampMap)
  /\ stampLog' = Append(stampLog, [before |-> tests_json, after |-> tests_json'])
  /\ UNCHANGED <<flips, last_progress, issues, repoLabels, passLog, callLog, stampMap>>

\* records as the subprocess writes them, or as an earlier session left them
StampRecordChoices ==
  {TestRecord(f, n, FALSE) : f \in Features \cup {NoFeature}, n \in {NoIssue, MaxIssue}}
StampLedgers == UNION {[1..n -> StampRecordChoices] : n \in 1..MaxTests}
\* the maps create_feature_issues can return
FeatureMaps == UNION {[fs -> 1..MaxIssue] : fs \in SUBSET Features \ {{}}}

InitStamp ==
  /\ StoreIdle
  /\ ExtIdle
  /\ tests_json \in {LedgerFile("raw", recs) : recs \in StampLedgers} \cup {AbsentLedger}
  /\ flips = 0
  /\ last_progress = <<>>
  /\ issues = <<>>
  /\ repoLabels = {}
  /\ passLog = <<>>
  /\ callLog = <<>>
  /\ stampMap \in FeatureMaps
  /\ stampLog = <<>>

NextStamp ==
  \/ Stamp /\ UNCHANGED <<storeVars, extVars>>
  \/ SubprocessFlips /\ UNCHANGED <<storeVars, extVars>>

SpecStamp == InitStamp /\ [][NextStamp]_vars

\* C10: stamping a second time with the same map the ledger the first
\* stamping produced leaves the ledger content identical.
C10_StampingIdempotent ==
  \A n \in 1..Len(stampLog) :
    (n > 1 /\ stampLog[n].before = stampLog[n - 1].after)
      => stampLog[n].after = stampLog[n].before

\* the first stamping changed the file, the second ran on its output
C10_Witness ==
  /\ Len(stampLog) = 2
  /\ stampLog[1].after # stampLog[1].before
  /\ stampLog[1].after.recs # stampLog[1].before.recs
  /\ stampLog[2].before = stampLog[1].after
  /\ stampLog[2].after = stampLog[1].after

\* C11: a stamping sets issueNumber to map[feature] on exactly the records
\* whose feature is a key of the map and leaves the rest as it was: the number
\* of records, their order, the other fields of every record and every field
\* of the records whose feature is not in the map.
C11_StampChangesOnlyMappedNumbers ==
  \A n \in 1..Len(stampLog) :
    LET b == stampLog[n].before
        a == stampLog[n].after
    IN b.kind = "json" =>
         /\ a.kind = "json"
         /\ Len(a.recs) = Len(b.recs)
         /\ \A k \in 1..Len(b.recs) :
              /\ a.recs[k].feature = b.recs[k].feature
              /\ a.recs[k].passes = b.recs[k].passes
              /\ a.recs[k].issueNumber =
                   IF b.recs[k].feature \in DOMAIN stampMap
                     THEN stampMap[b.recs[k].feature]
                     ELSE b.recs[k].issueNumber

\* a stamping of a ledger the subprocess had flipped a record of: one record
\* got a new number, and a record stamped by an earlier session whose feature
\* is not in the map kept its number
C11_Witness ==
  /\ stampLog # <<>>
  /\ LET b == stampLog[1].before
         a == stampLog[1].after
     IN /\ b.kind = "json"
        /\ Len(b.recs) = 2
        /\ \E k \in 1..2 : b.recs[k].passes
        /\ \E k \in 1..2 :
             /\ b.recs[k].feature \in DOMAIN stampMap
             /\ a.recs[k].issueNumber # b.recs[k].issueNumber
        /\ \E k \in 1..2 :
             /\ b.recs[k].feature \in Features \ DOMAIN stampMap
             /\ b.recs[k].issueNumber # NoIssue
             /\ a.recs[k] = b.recs[k]

(***************************************************************************)
(* assign_issue_numbers_to_tests next to the running subprocess            *)
(***************************************************************************)
\* tests = json.loads(tests_json_path.read_text()); a file that is absent
\* raises, which ends the call
StampLoads ==
  /\ stamping.pc = "idle"
  /\ Len(stampLog) < MaxStamps
  /\ tests_json.kind = "json"
  /\ stamping' = [pc |-> "loaded", tests |-> LoadTests(tests_json)]
  /\ UNCHANGED ledgerVars

\* the loop over `tests` and tests_json_path.write_text(json.dumps(tests,
\* indent=2)): the file becomes the stamped copy of what was loaded
StampWrites ==
  /\ stamping.pc = "loaded"
  /\ tests_json' = assign_issue_numbers_to_tests(
                     LedgerFile(tests_json.fmt, stamping.tests), stampMap)
  /\ stampLog' = Append(stampLog,
                   [before |-> LedgerFile(tests_json.fmt, stamping.tests),
                    after |-> tests_json'])
  /\ stamping' = NotStamping
  /\ UNCHANGED <<flips, last_progress, issues, repoLabels, passLog, callLog, stampMap>>

\* the ledgers the subprocess has written before the first stamping: no
\* record carries an issue number
UnstampedLedgers ==
  {recs \in StampLedgers : \A k \in 1..Len(recs) : recs[k].issueNumber = NoIssue}

InitStampRace ==
  /\ StoreIdle
  /\ ExtIdle
  /\ tests_json \in {LedgerFile("raw", recs) : recs \in UnstampedLedgers}
  /\ flips = 0
  /\ last_progress = <<>>
  /\ issues = <<>>
  /\ repoLabels = {}
  /\ passLog = <<>>
  /\ callLog = <<>>
  /\ stampMap \in FeatureMaps
  /\ stampLog = <<>>

NextStampRace ==
  \/ StampLoads /\ UNCHANGED <<storeVars, shotVars, pubVars, loopVars, sideVars>>
  \/ StampWrites /\ UNCHANGED <<storeVars, shotVars, pubVars, loopVars, sideVars>>
  \/ SubprocessFlips /\ UNCHANGED <<storeVars, extVars>>

SpecStampRace == InitStampRace /\ [][NextStampRace]_vars

\* the step that writes the stamped ledger
StampWriteStep == stamping.pc = "loaded" /\ stamping'.pc = "idle"

\* C12: the stamping never changes the passes value of a record: whatever
\* the subprocess wrote before the stamping's write, a record of the ledger
\* has the same passes value after that write as before it.
C12_StampKeepsPasses ==
  [][StampWriteStep =>
       /\ Len(tests_json'.recs) = Len(tests_json.recs)
       /\ \A k \in 1..Len(tests_json.recs) :
            tests_json'.recs[k].passes = tests_json.recs[k].passes]_vars

(***************************************************************************)
(* post_screenshots_to_issue                                               *)
(***************************************************************************)
MaxShots == 6        \* screenshots the subprocess takes
MaxShotCalls == 2    \* post_screenshots_to_issue calls

\* new_screenshots[:5]
ShotCap == 5

\* A screenshot is named by the hash of its content (the first 8 hex digits
\* of its md5): no two files of the directory have the same content.
RECURSIVE Ascending(_)
Ascending(S) ==
  IF S = {} THEN <<>>
  ELSE LET least == CHOOSE x \in S : \A y \in S : x <= y
       IN <<least>> \o Ascending(S \ {least})
Reverse(q) == [k \in 1..Len(q) |-> q[Len(q) + 1 - k]]

\* screenshots_dir.glob("**/*.png") yields the files in the order the file
\* system lists them
GlobOrders == {"asc", "desc"}
Glob(files, order) == IF order = "asc" THEN Ascending(files) ELSE Reverse(Ascending(files))

Min(a, b) == IF a < b THEN a ELSE b
\* s[:n]
Prefix(q, n) == SubSeq(q, 1, IF Len(q) < n THEN Len(q) ELSE n)
Range(q) == {q[k] : k \in 1..Len(q)}

\* a comment that names every new file
ScreenshotsComment_All(new_screenshots) ==
  [kind |-> "screenshots", named |-> new_screenshots,
   more |-> IF Len(new_screenshots) > ShotCap THEN Len(new_screenshots) - ShotCap ELSE 0]

\* the comment: the files it names and the number in its "...and N more" line
ScreenshotsComment(new_screenshots) ==
  [kind |-> "screenshots", named |-> Prefix(new_screenshots, ShotCap),
   more |-> IF Len(new_screenshots) > ShotCap THEN Len(new_screenshots) - ShotCap ELSE 0]

\* every file taken as new
NewScreenshots_All(files, order, uploaded_hashes) == Glob(files, order)

\* new_screenshots: the files whose hash is not in uploaded_hashes, in glob
\* order
NewScreenshots(files, order, uploaded_hashes) ==
  SelectSeq(Glob(files, order), LAMBDA h : h \notin uploaded_hashes)

\* post_screenshots_to_issue(screenshots_dir, issue_number, ..., uploaded_hashes):
\* the returned set, the tracker afterwards and whether a comment was posted.
\* The tracker calls are get_repo, get_issue and create_comment; the one
\* numbered failAt raises.
post_screenshots_to_issue(dir, issue_number, iss, uploaded_hashes, failAt, order) ==
  LET new_screenshots == NewScreenshots(dir.files, order, uploaded_hashes)
      unchanged == [hashes |-> uploaded_hashes, issues |-> iss, posted |-> FALSE,
                    raised |-> FALSE, calls |-> 0]
      added == uploaded_hashes \cup Range(Prefix(new_screenshots, ShotCap))
  IN IF ~dir.exists THEN unchanged
     ELSE IF new_screenshots = <<>> THEN unchanged
     ELSE IF failAt = 1
       THEN [unchanged EXCEPT !.raised = TRUE, !.calls = 1]
     ELSE IF failAt = 2 \/ issue_number \notin DOMAIN iss
       THEN [unchanged EXCEPT !.raised = TRUE, !.calls = 2]
     ELSE IF failAt = 3
       THEN [hashes |-> added, issues |-> iss, posted |-> FALSE, raised |-> TRUE,
             calls |-> 3]
     ELSE [hashes |-> added,
           issues |-> [iss EXCEPT ![issue_number].comments =
                         Append(@, ScreenshotsComment(new_screenshots))],
           posted |-> TRUE, raised |-> FALSE, calls |-> 3]

\* the subprocess saves one more screenshot, making the directory if needed
TakeScreenshot ==
  /\ Cardinality(screenshots_dir.files) < MaxShots
  /\ screenshots_dir' =
       [exists |-> TRUE,
        files |-> screenshots_dir.files \cup {Cardinality(screenshots_dir.files) + 1}]
  /\ UNCHANGED <<uploaded_screenshots, shotLog>>
  /\ UNCHANGED <<ledgerVars, stampVars, sideVars, pubVars, loopVars>>

\* uploaded_screenshots = post_screenshots_to_issue(..., uploaded_hashes =
\* uploaded_screenshots) for one of the feature issues
PostScreenshots ==
  /\ Len(shotLog) < MaxShotCalls
  /\ \E issue_num \in DOMAIN issues, failAt \in 0..3, order \in GlobOrders :
       LET r == post_screenshots_to_issue(screenshots_dir, issue_num, issues,
                                          uploaded_screenshots, failAt, order)
       IN /\ (failAt # 0) => r.raised
          /\ uploaded_screenshots' = r.hashes
          /\ issues' = r.issues
          /\ shotLog' = Append(shotLog,
                          [files |-> screenshots_dir.files, before |-> uploaded_screenshots,
                           after |-> r.hashes, posted |-> r.posted, raised |-> r.raised,
                           called |-> r.calls > 0,
                           issue |-> IF r.posted THEN issue_num ELSE NoIssue])
  /\ UNCHANGED <<screenshots_dir, stampVars, sideVars, pubVars, loopVars>>
  /\ UNCHANGED <<tests_json, flips, last_progress, repoLabels, passLog, callLog, stampMap, stampLog>>

InitShots ==
  /\ StoreIdle
  /\ ExtIdle
  /\ tests_json = AbsentLedger
  /\ flips = 0
  /\ last_progress = <<>>
  /\ issues = [n \in 1..MaxIssue |-> Issue("open", IssueLabels(n))]
  /\ repoLabels = {}
  /\ passLog = <<>>
  /\ callLog = <<>>
  /\ stampMap = <<>>
  /\ stampLog = <<>>

NextShots ==
  \/ TakeScreenshot /\ UNCHANGED storeVars
  \/ PostScreenshots /\ UNCHANGED storeVars

SpecShots == InitShots /\ [][NextShots]_vars

ShotCalls == 1..Len(shotLog)

\* C13: of two calls in a row over the same files only the first posts a
\* comment and the second returns the set the first returned, however many
\* files there are; the set of seen hashes never loses an element.
C13_SecondPublishIsNoOp ==
  /\ \A n \in ShotCalls :
       (/\ n + 1 \in ShotCalls
        /\ shotLog[n].files = shotLog[n + 1].files
        /\ ~shotLog[n].raised /\ ~shotLog[n + 1].raised)
       => /\ ~shotLog[n + 1].posted
          /\ shotLog[n + 1].after = shotLog[n].after
  /\ \A n \in ShotCalls :
       /\ shotLog[n].before \subseteq shotLog[n].after
       /\ shotLog[n].after \subseteq uploaded_screenshots

\* C14: after a call that posted a comment the returned set holds the hash
\* of every file that was new in that call, those beyond the first 5 too.
C14_AllNewHashesSeen ==
  \A n \in ShotCalls :
    shotLog[n].posted =>
      (shotLog[n].files \ shotLog[n].before) \subseteq shotLog[n].after

\* the files of call n that are not in the set the call was given
NewOf(n) == shotLog[n].files \ shotLog[n].before
\* the comments of issue k after this step that were not there before it
CommentsAdded(k) ==
  IF Len(issues'[k].comments) >= Len(issues[k].comments)
    THEN SubSeq(issues'[k].comments, Len(issues[k].comments) + 1, Len(issues'[k].comments))
    ELSE <<>>
\* a call has just ended (the log has one more entry)
ShotCallEnds == Len(shotLog') = Len(shotLog) + 1

\* C31: a call that finds no new hash makes no tracker call and leaves the
\* tracker as it was; a call that finds new hashes and whose tracker calls
\* are answered posts exactly one comment, on its issue, which names
\* min(5, number of new files) different new files and whose overflow note
\* gives the number of new files beyond 5 (no note when at most 5 are new).
C31_OneCappedComment ==
  [][ShotCallEnds =>
       LET n == Len(shotLog')
           e == shotLog'[n]
           new == e.files \ e.before
       IN /\ new = {} => (~e.called /\ issues' = issues)
          /\ (new # {} /\ ~e.raised) =>
               /\ \A k \in DOMAIN issues :
                    Len(CommentsAdded(k)) = IF k = e.issue THEN 1 ELSE 0
               /\ LET c == CommentsAdded(e.issue)[1]
                  IN /\ c.kind = "screenshots"
                     /\ Len(c.named) = Min(ShotCap, Cardinality(new))
                     /\ Range(c.named) \subseteq new
                     /\ Cardinality(Range(c.named)) = Len(c.named)
                     /\ c.more = IF Cardinality(new) > ShotCap
                                   THEN Cardinality(new) - ShotCap ELSE 0]_vars
\* a call found more than 5 new files and posted its comment
C31_Witness ==
  \E n \in ShotCalls :
    /\ shotLog[n].posted
    /\ Cardinality(NewOf(n)) > ShotCap
    /\ shotLog[n].called

\* the hashes named in the screenshot comments of the tracker
NamedIn(k) ==
  UNION {Range(issues[k].comments[j].named) :
           j \in {m \in 1..Len(issues[k].comments) :
                    issues[k].comments[m].kind = "screenshots"}}
NamedHashes == UNION {NamedIn(k) : k \in DOMAIN issues}

\* C37: a hash is in the seen set only if a posted comment names it, and a
\* call whose tracker call fails returns the set it was given.
C37_SeenOnlyIfPosted ==
  /\ uploaded_screenshots \subseteq NamedHashes
  /\ \A n \in ShotCalls : shotLog[n].raised => shotLog[n].after = shotLog[n].before

\* the screenshot comments, over all issues, that name hash h
NamingComments(h) ==
  UNION {{<<k, j>> : j \in {m \in 1..Len(issues[k].comments) :
                                /\ issues[k].comments[m].kind = "screenshots"
                                /\ h \in Range(issues[k].comments[m].named)}} :
           k \in DOMAIN issues}

\* C38: over all issues together at most one posted comment names a given
\* hash, and no comment names a hash twice.
C38_NamedAtMostOnce ==
  /\ \A h \in screenshots_dir.files : Cardinality(NamingComments(h)) <= 1
  /\ \A k \in DOMAIN issues : \A j \in 1..Len(issues[k].comments) :
       issues[k].comments[j].kind = "screenshots" =>
         Cardinality(Range(issues[k].comments[j].named)) = Len(issues[k].comments[j].named)
\* two calls posted, on two issues: the first named 5 of the files and the
\* second one that was left
C38_Witness ==
  /\ Len(shotLog) = 2
  /\ shotLog[1].posted /\ shotLog[2].posted
  /\ shotLog[1].issue # shotLog[2].issue
  /\ Cardinality(NamedHashes) > ShotCap

(***************************************************************************)
(* The publisher operations, called one after the other                    *)
(***************************************************************************)
MaxOps == 3          \* publisher calls in a series
MaxErrorCalls == 55  \* publish_error calls in a series
MaxFailingCalls == 2 \* the calls of a series that may fail to open the file

\* errors[-50:]
ErrorCap == 50

\* q[:n] in place of q[-n:]: the oldest entries are kept
Suffix_Oldest(q, n) == Prefix(q, n)

\* q[-n:]
Suffix(q, n) == IF Len(q) <= n THEN q ELSE SubSeq(q, Len(q) - n + 1, Len(q))

\* d.get(k, default)
Get(d, k, default) == IF k \in DOMAIN d THEN d[k] ELSE default

ErrorTypes == {"setup_failed", "agent_crash"}
ErrorEntry(error_type, t) == [type |-> error_type, timestamp |-> t]

\* kwargs of publish_error: the list read from the file, with the new entry,
\* cut to its last 50
ErrorKwargs(m, error_type, t) ==
  [errors |-> Suffix(Append(Get(m, "errors", <<>>), ErrorEntry(error_type, t)), ErrorCap),
   last_error |-> error_type, last_error_time |-> t, status |-> "error"]

\* kwargs of publish_commits_pushed, total being the new _total_commits
CommitsKwargs(total, count, t) ==
  [total_commits |-> total, last_push |-> t, last_push_count |-> count]

\* publish_progress without the running total
ProgressKwargsOf_Zero(total, t) == ProgressKwargs(t)

\* kwargs of publish_progress of a publisher whose _total_commits is total
ProgressKwargsOf(total, t) == [ProgressKwargs(t) EXCEPT !.total_commits = total]

Publisher == "main"

\* the caller enters a publisher method: the clock is read, the call is noted
Enter(name) ==
  /\ spc[Publisher] = "idle"
  /\ now' = now + 1
  /\ ncalls' = [ncalls EXCEPT ![Publisher] = @ + 1]
  /\ op' = [name |-> name, at |-> now', before |-> _read_metrics(file), ret |-> FALSE]
  /\ UNCHANGED <<file, lockOwner, enabled, flushed, ret, opLog>>

\* the methods that go through _update_metrics(**kwargs)
Update(name, kw) ==
  /\ Enter(name)
  /\ kwargs' = [kwargs EXCEPT ![Publisher] = kw]
  /\ spc' = [spc EXCEPT ![Publisher] = "read"]
  /\ UNCHANGED metrics

\* the start snapshot merged into the file through _update_metrics
publish_session_started_Merges ==
  Update("started", StartedSnapshot(now + 1)) /\ _total_commits' = 0

\* publish_session_started: the snapshot is built and goes to _write_metrics
publish_session_started ==
  /\ Enter("started")
  /\ metrics' = [metrics EXCEPT ![Publisher] = StartedSnapshot(now')]
  /\ _total_commits' = 0
  /\ spc' = [spc EXCEPT ![Publisher] = "open"]
  /\ UNCHANGED kwargs

\* clear: _write_metrics({})
clear ==
  /\ Enter("clear")
  /\ metrics' = [metrics EXCEPT ![Publisher] = EmptyDict]
  /\ spc' = [spc EXCEPT ![Publisher] = "open"]
  /\ UNCHANGED <<kwargs, _total_commits>>

publish_session_heartbeat ==
  Update("heartbeat", HeartbeatKwargs(now + 1)) /\ UNCHANGED _total_commits

publish_progress ==
  Update("progress", ProgressKwargsOf(_total_commits, now + 1)) /\ UNCHANGED _total_commits

publish_session_completed ==
  \E code \in {0, 1} :
    Update("completed", CompletedKwargs(now + 1, code)) /\ UNCHANGED _total_commits

publish_commits_pushed ==
  \E count \in {1, 2} :
    /\ _total_commits' = _total_commits + count
    /\ Update("commits_pushed", CommitsKwargs(_total_commits', count, now + 1))

\* publish_error reads the file itself before it calls _update_metrics
publish_error(types) ==
  \E error_type \in types :
    Update("error", ErrorKwargs(_read_metrics(file), error_type, now + 1))
      /\ UNCHANGED _total_commits

\* the call returns: it is logged with its kwargs and its return value
Returns(value) ==
  /\ opLog' = Append(opLog, [name |-> op.name, at |-> op.at, before |-> op.before,
                             ret |-> value,
                             kw |-> IF op.name \in {"started", "clear"}
                                      THEN EmptyDict ELSE kwargs[Publisher]])
  /\ op' = NoOp
  /\ UNCHANGED _total_commits

\* the steps of _update_metrics and _write_metrics, made by the one caller
PublisherStep ==
  \/ Read(Publisher) /\ UNCHANGED pubVars
  \/ Merge(Publisher) /\ UNCHANGED pubVars
  \/ WriteDisabled(Publisher) /\ Returns(FALSE)
  \/ Open(Publisher) /\ UNCHANGED pubVars
  \/ OpenFails(Publisher) /\ ncalls[Publisher] <= MaxFailingCalls /\ Returns(FALSE)
  \/ Flock(Publisher) /\ UNCHANGED pubVars
  \/ Dump(Publisher) /\ UNCHANGED pubVars
  \/ Unlock(Publisher) /\ UNCHANGED pubVars
  \/ Close(Publisher) /\ Returns(TRUE)

\* The publisher has been constructed; the file is absent or holds the
\* snapshot of a session start.
InitPublisher ==
  /\ InitStore
  /\ file \in {Missing, Json(StartedSnapshot(0))}

NextPublisher ==
  \/ ncalls[Publisher] < MaxOps /\ publish_session_started
       /\ UNCHANGED <<ledgerVars, stampVars, sideVars, shotVars, loopVars>>
  \/ ncalls[Publisher] < MaxOps /\ publish_session_heartbeat
       /\ UNCHANGED <<ledgerVars, stampVars, sideVars, shotVars, loopVars>>
  \/ ncalls[Publisher] < MaxOps /\ publish_progress
       /\ UNCHANGED <<ledgerVars, stampVars, sideVars, shotVars, loopVars>>
  \/ ncalls[Publisher] < MaxOps /\ publish_session_completed
       /\ UNCHANGED <<ledgerVars, stampVars, sideVars, shotVars, loopVars>>
  \/ ncalls[Publisher] < MaxOps /\ publish_commits_pushed
       /\ UNCHANGED <<ledgerVars, stampVars, sideVars, shotVars, loopVars>>
  \/ ncalls[Publisher] < MaxOps /\ publish_error(ErrorTypes)
       /\ UNCHANGED <<ledgerVars, stampVars, sideVars, shotVars, loopVars>>
  \/ PublisherStep /\ UNCHANGED <<ledgerVars, stampVars, sideVars, shotVars, loopVars>>

SpecPublisher == InitPublisher /\ [][NextPublisher]_vars

\* a series of publish_error calls of one type, on a store that is enabled
InitErrors ==
  /\ InitPublisher
  /\ enabled

NextErrors ==
  \/ ncalls[Publisher] < MaxErrorCalls /\ publish_error({"agent_crash"})
       /\ UNCHANGED <<ledgerVars, stampVars, sideVars, shotVars, loopVars>>
  \/ PublisherStep /\ UNCHANGED <<ledgerVars, stampVars, sideVars, shotVars, loopVars>>

SpecErrors == InitErrors /\ [][NextErrors]_vars

\* a series of publisher calls on a store that is disabled: _write_metrics
\* returns False at its first line
InitDisabled ==
  /\ InitPublisher
  /\ ~enabled

DisabledStep ==
  \/ Read(Publisher) /\ UNCHANGED pubVars
  \/ Merge(Publisher) /\ UNCHANGED pubVars
  \/ WriteDisabled(Publisher) /\ Returns(FALSE)

NextDisabled ==
  \/ ncalls[Publisher] < MaxOps /\ publish_session_started
       /\ UNCHANGED <<ledgerVars, stampVars, sideVars, shotVars, loopVars>>
  \/ ncalls[Publisher] < MaxOps /\ publish_session_heartbeat
       /\ UNCHANGED <<ledgerVars, stampVars, sideVars, shotVars, loopVars>>
  \/ ncalls[Publisher] < MaxOps /\ publish_progress
       /\ UNCHANGED <<ledgerVars, stampVars, sideVars, shotVars, loopVars>>
  \/ ncalls[Publisher] < MaxOps /\ publish_session_completed
       /\ UNCHANGED <<ledgerVars, stampVars, sideVars, shotVars, loopVars>>
  \/ ncalls[Publisher] < MaxOps /\ publish_commits_pushed
       /\ UNCHANGED <<ledgerVars, stampVars, sideVars, shotVars, loopVars>>
  \/ ncalls[Publisher] < MaxOps /\ publish_error(ErrorTypes)
       /\ UNCHANGED <<ledgerVars, stampVars, sideVars, shotVars, loopVars>>
  \/ ncalls[Publisher] < MaxOps /\ clear
       /\ UNCHANGED <<ledgerVars, stampVars, sideVars, shotVars, loopVars>>
  \/ DisabledStep /\ UNCHANGED <<ledgerVars, stampVars, sideVars, shotVars, loopVars>>

SpecDisabled == InitDisabled /\ [][NextDisabled]_vars

(***************************************************************************)
(* Claims about the publisher operations                                   *)
(***************************************************************************)
\* no call is under way
Quiet == spc[Publisher] = "idle"
\* the entries of the publish_error calls that returned True, in call order
Recorded == [k \in 1..Len(SelectSeq(opLog, LAMBDA e : e.name = "error" /\ e.ret)) |->
               ErrorEntry("agent_crash",
                          SelectSeq(opLog, LAMBDA e : e.name = "error" /\ e.ret)[k].at)]

\* C18: after n publish_error calls in a row that were written, starting
\* from a snapshot without errors, the errors list holds the most recent
\* min(n, 50) entries in the order they were recorded and status is error;
\* the list is never longer than 50.
C18_ErrorHistoryCapped ==
  /\ (Quiet /\ Recorded # <<>>) =>
       LET m == _read_metrics(file)
           n == Len(Recorded)
       IN /\ "errors" \in DOMAIN m
          /\ Len(m.errors) = Min(n, ErrorCap)
          /\ \A k \in 1..Len(m.errors) :
               m.errors[k] = Recorded[n - Len(m.errors) + k]
          /\ m.status = "error"
  /\ "errors" \in DOMAIN _read_metrics(file) =>
       Len(_read_metrics(file).errors) <= ErrorCap

\* 55 calls were written: the list holds 50 entries, the first of them the
\* entry of the 6th call
C18_Witness ==
  /\ Quiet
  /\ Len(Recorded) = 55
  /\ Len(_read_metrics(file).errors) = 50
  /\ _read_metrics(file).errors[1] = Recorded[6]
  /\ _read_metrics(file).errors[1] # Recorded[1]

StatusWriters == {"started", "heartbeat", "error", "completed"}
StatusOf(name) ==
  IF name = "error" THEN "error" ELSE IF name = "completed" THEN "completed" ELSE "running"
\* the calls that were written and set the status
StatusWrites == SelectSeq(opLog, LAMBDA e : e.name \in StatusWriters /\ e.ret)
NoStatus == "none"

\* C19: after a series of publisher calls the status of the snapshot is the
\* one written by the most recent call that writes a status; without such a
\* call it is what it was before the series.
C19_LastStatusWriterWins ==
  (Quiet /\ opLog # <<>>) =>
    LET m == _read_metrics(file)
    IN IF StatusWrites # <<>>
         THEN /\ "status" \in DOMAIN m
              /\ m.status = StatusOf(StatusWrites[Len(StatusWrites)].name)
         ELSE Get(m, "status", NoStatus) = Get(opLog[1].before, "status", NoStatus)

\* an error was written, then a completion, then a progress update: the
\* status is completed
C19_Witness ==
  /\ Quiet
  /\ Len(opLog) = 3
  /\ opLog[1].name = "error" /\ opLog[1].ret
  /\ opLog[2].name = "completed" /\ opLog[2].ret
  /\ opLog[3].name = "progress" /\ opLog[3].ret
  /\ _read_metrics(file).status = "completed"

HeartbeatFields == {"last_heartbeat", "status", "last_updated"}

\* C20: a heartbeat changes last_heartbeat, status and last_updated only:
\* every other field of the snapshot is there after the call with the value
\* it had before, and no other field appears.
C20_HeartbeatFrame ==
  (Quiet /\ opLog # <<>>) =>
    LET e == opLog[Len(opLog)]
        m == _read_metrics(file)
    IN (e.name = "heartbeat" /\ e.ret) =>
         /\ DOMAIN m \ HeartbeatFields = DOMAIN e.before \ HeartbeatFields
         /\ \A k \in DOMAIN e.before \ HeartbeatFields : m[k] = e.before[k]
         /\ HeartbeatFields \subseteq DOMAIN m
         /\ m.status = "running" /\ m.last_heartbeat = e.at /\ m.last_updated = e.at

\* a heartbeat was written onto a snapshot that held an error list and a
\* commit count and had status error
C20_Witness ==
  /\ Quiet
  /\ opLog # <<>>
  /\ LET e == opLog[Len(opLog)]
     IN /\ e.name = "heartbeat" /\ e.ret
        /\ {"errors", "total_commits"} \subseteq DOMAIN e.before
        /\ e.before.status = "error"
        /\ _read_metrics(file).errors = e.before.errors

\* the call that returned last
LastOp == opLog[Len(opLog)]
StartedFields ==
  {"current_issue", "session_id", "status", "mode", "session_started", "last_heartbeat",
   "total_commits", "elapsed_hours", "cost_usd", "api_calls", "input_tokens",
   "output_tokens"}
ZeroFields ==
  {"total_commits", "elapsed_hours", "cost_usd", "api_calls", "input_tokens",
   "output_tokens"}

\* C21: after a publish_session_started that was written, whatever the
\* snapshot held before, the snapshot has the fields of the initial snapshot
\* and no other: status running, the mode of the call, the six counters 0,
\* the two timestamps of the call; _total_commits is 0.
C21_StartResetsSnapshot ==
  (Quiet /\ opLog # <<>>) =>
    ((LastOp.name = "started" /\ LastOp.ret) =>
       LET m == _read_metrics(file)
       IN /\ file.kind = "json"
          /\ DOMAIN m = StartedFields
          /\ m.status = "running"
          /\ m.mode = "full_build"
          /\ \A k \in ZeroFields : m[k] = 0
          /\ m.session_started = LastOp.at /\ m.last_heartbeat = LastOp.at
          /\ _total_commits = 0)

\* a start was written over a snapshot that held pushed commits and errors
C21_Witness ==
  /\ Quiet
  /\ opLog # <<>>
  /\ LastOp.name = "started" /\ LastOp.ret
  /\ "errors" \in DOMAIN LastOp.before
  /\ Get(LastOp.before, "total_commits", 0) > 0
  /\ Get(LastOp.before, "status", NoStatus) = "error"
  /\ "errors" \notin DOMAIN _read_metrics(file)

\* the calls since the last session start that was written (Init is the
\* state after a session start when the file holds the start snapshot)
StartIndex ==
  LET S == {k \in 1..Len(opLog) : opLog[k].name = "started" /\ opLog[k].ret}
  IN IF S = {} THEN 0 ELSE CHOOSE k \in S : \A j \in S : j <= k
SinceStart == SubSeq(opLog, StartIndex + 1, Len(opLog))
Started ==
  \/ StartIndex > 0
  \/ opLog # <<>> /\ opLog[1].before = StartedSnapshot(0)
RECURSIVE SumCounts(_)
SumCounts(q) ==
  IF q = <<>> THEN 0
  ELSE (IF Head(q).name = "commits_pushed" THEN Head(q).kw.last_push_count ELSE 0)
         + SumCounts(Tail(q))

\* C22: after a session start followed by commits_pushed, progress and
\* heartbeat calls in any order, all of them written, total_commits of the
\* snapshot is the sum of the counts pushed.
C22_TotalCommitsIsSum ==
  (/\ Quiet
   /\ Started
   /\ \A k \in 1..Len(SinceStart) :
        /\ SinceStart[k].ret
        /\ SinceStart[k].name \in {"commits_pushed", "progress", "heartbeat"}) =>
    /\ "total_commits" \in DOMAIN _read_metrics(file)
    /\ _read_metrics(file).total_commits = SumCounts(SinceStart)

\* 1 commit was pushed, progress was published, 2 commits were pushed: the
\* snapshot counts 3
C22_Witness ==
  /\ Quiet
  /\ Started
  /\ Len(SinceStart) = 3
  /\ SinceStart[1].name = "commits_pushed" /\ SinceStart[1].ret
  /\ SinceStart[1].kw.last_push_count = 1
  /\ SinceStart[2].name = "progress" /\ SinceStart[2].ret
  /\ SinceStart[3].name = "commits_pushed" /\ SinceStart[3].ret
  /\ SinceStart[3].kw.last_push_count = 2
  /\ _read_metrics(file).total_commits = 3

\* C23: on a disabled store every publisher call returns False and has no
\* side effect: after any series of calls the status file is what it was
\* before the series and _total_commits is what it was (0).
C23_DisabledIsNoOp ==
  ~enabled =>
    /\ \A k \in 1..Len(opLog) : ~opLog[k].ret
    /\ file \in {Missing, Json(StartedSnapshot(0))}
    /\ opLog # <<>> => _read_metrics(file) = opLog[1].before
    /\ _total_commits = 0

(***************************************************************************)
(* _read_metrics, _write_metrics and _update_metrics as whole calls of     *)
(* one caller, on any content of the status file                           *)
(***************************************************************************)
MaxStoreCalls == 2   \* calls of the store in a series

\* The status file may also hold JSON that is not an object (such as []),
\* or bytes that are not UTF-8 text.
NotObject == [kind |-> "array", data |-> EmptyDict]
Binary == [kind |-> "binary", data |-> EmptyDict]
StoreFiles == {Missing, Truncated, Corrupt, NotObject, Binary, Json(StartedSnapshot(0))}

\* _read_metrics as a call: what it returns, or that it raises.  json.loads
\* returns whatever value the text holds; json.JSONDecodeError and IOError
\* are caught, the UnicodeDecodeError of read_text is not.
read_metrics(f) ==
  CASE f.kind = "json" -> [type |-> "dict", data |-> f.data]
    [] f.kind = "array" -> [type |-> "list", data |-> EmptyDict]
    [] f.kind = "binary" -> [type |-> "raised", data |-> EmptyDict]
    [] OTHER -> [type |-> "dict", data |-> EmptyDict]

\* what can go wrong inside the try block of _write_metrics: mkdir or open
\* raises, or json.dump raises after open has truncated the file
WriteFaults == {"none", "open", "dump"}

\* _write_metrics without its except clause
write_metrics_NoExcept(f, m, en, fault) ==
  IF ~en THEN [file |-> f, ret |-> "False"]
  ELSE IF fault = "open" THEN [file |-> f, ret |-> "raised"]
  ELSE IF fault = "dump" THEN [file |-> Truncated, ret |-> "raised"]
  ELSE [file |-> Json(m), ret |-> "True"]

\* _write_metrics as a call: the file it leaves and what it returns
write_metrics(f, m, en, fault) ==
  IF ~en THEN [file |-> f, ret |-> "False"]
  ELSE IF fault = "open" THEN [file |-> f, ret |-> "False"]
  ELSE IF fault = "dump" THEN [file |-> Truncated, ret |-> "False"]
  ELSE [file |-> Json(m), ret |-> "True"]

\* _update_metrics as a call: metrics.update(kwargs) raises AttributeError
\* when _read_metrics returned a list
update_metrics(f, kw, t, en, fault) ==
  LET r == read_metrics(f)
  IN IF r.type # "dict" THEN [file |-> f, ret |-> "raised"]
     ELSE write_metrics(f, DictUpdate(DictUpdate(r.data, kw), [last_updated |-> t]),
                        en, fault)

\* the kwargs of the calls of main and of the heartbeat thread
UpdateKwargs(t) == {HeartbeatKwargs(t), ProgressKwargs(t), CompletedKwargs(t, 0)}

\* a call of a method that goes through _update_metrics
CallUpdate ==
  /\ Len(opLog) < MaxStoreCalls
  /\ now' = now + 1
  /\ \E kw \in UpdateKwargs(now') : \E fault \in WriteFaults :
       LET r == update_metrics(file, kw, now', enabled, fault)
       IN /\ file' = r.file
          /\ opLog' = Append(opLog,
                [name |-> "update", at |-> now', before |-> file, after |-> r.file,
                 read |-> read_metrics(file), kw |-> kw,
                 fault |-> IF enabled /\ read_metrics(file).type = "dict"
                             THEN fault ELSE "none",
                 ret |-> r.ret])
  /\ UNCHANGED <<lockOwner, enabled, spc, kwargs, metrics, flushed, ret, ncalls>>
  /\ UNCHANGED <<_total_commits, op>>

\* get_status(): return self._read_metrics()
CallGetStatus ==
  /\ Len(opLog) < MaxStoreCalls
  /\ now' = now + 1
  /\ opLog' = Append(opLog,
        [name |-> "get_status", at |-> now', before |-> file, after |-> file,
         read |-> read_metrics(file), kw |-> EmptyDict, fault |-> "none",
         ret |-> IF read_metrics(file).type = "raised" THEN "raised" ELSE "value"])
  /\ UNCHANGED <<file, lockOwner, enabled, spc, kwargs, metrics, flushed, ret, ncalls>>
  /\ UNCHANGED <<_total_commits, op>>

InitCalls ==
  /\ file \in StoreFiles
  /\ lockOwner = NoOwner
  /\ enabled \in BOOLEAN
  /\ now = 0
  /\ spc = [p \in Callers |-> "idle"]
  /\ kwargs = [p \in Callers |-> EmptyDict]
  /\ metrics = [p \in Callers |-> EmptyDict]
  /\ flushed = [p \in Callers |-> TRUE]
  /\ ret = [p \in Callers |-> FALSE]
  /\ ncalls = [p \in Callers |-> 0]
  /\ LedgerIdle
  /\ ExtIdle

NextCalls ==
  \/ CallUpdate /\ UNCHANGED <<ledgerVars, stampVars, sideVars, shotVars, loopVars>>
  \/ CallGetStatus /\ UNCHANGED <<ledgerVars, stampVars, sideVars, shotVars, loopVars>>

SpecCalls == InitCalls /\ [][NextCalls]_vars

\* the calls made on a file that is missing, empty or truncated, or does not
\* hold a snapshot object
OnBadFile == {k \in 1..Len(opLog) : opLog[k].before.kind # "json"}

\* C24: reading the status store never fails: on a file that is missing,
\* empty, truncated or not a snapshot object the read returns the empty
\* snapshot; an update made then does not raise, and when it is written
\* the snapshot holds the fields of the update and last_updated, no more.
C24_ReadNeverFails ==
  \A k \in OnBadFile :
    LET e == opLog[k]
    IN /\ e.read = [type |-> "dict", data |-> EmptyDict]
       /\ e.ret # "raised"
       /\ (e.name = "update" /\ e.ret = "True") =>
            e.after = Json(DictUpdate(e.kw, [last_updated |-> e.at]))

\* C25: an update whose file write fails returns False and does not raise.
C25_WriteFailureReturnsFalse ==
  \A k \in 1..Len(opLog) :
    (opLog[k].name = "update" /\ opLog[k].fault # "none") =>
       /\ opLog[k].ret = "False"
       /\ opLog[k].after \in {opLog[k].before, Truncated}

\* json.dump failed in an update of a snapshot: the call returned False,
\* and the next call was made
C25_Witness ==
  /\ Len(opLog) = 2
  /\ opLog[1].name = "update" /\ opLog[1].fault = "dump"
  /\ opLog[1].before.kind = "json"
  /\ opLog[1].ret = "False"
  /\ opLog[2].name = "update" /\ opLog[2].ret = "True"

(***************************************************************************)
(* run_agent_with_monitoring and the end of main                           *)
(***************************************************************************)
MaxTicks == 2        \* reconciliation ticks of the monitoring loop

\* the ledger while the subprocess is in the middle of writing recs to it:
\* json.loads raises on it
PartialLedger(recs) == [kind |-> "corrupt", fmt |-> "raw", recs |-> recs]

\* the loop of extract_features_from_tests without its `feature not in seen`
RECURSIVE extract_features_NoSeen(_, _)
extract_features_NoSeen(ts, seen) ==
  IF ts = <<>> THEN <<>>
  ELSE LET feature == Head(ts).feature
       IN IF feature # NoFeature
            THEN <<feature>> \o extract_features_NoSeen(Tail(ts), seen \cup {feature})
            ELSE extract_features_NoSeen(Tail(ts), seen)

\* extract_features_from_tests: the features in order of first appearance;
\* [] when the file is absent or does not parse
RECURSIVE extract_features(_, _)
extract_features(ts, seen) ==
  IF ts = <<>> THEN <<>>
  ELSE LET feature == Head(ts).feature
       IN IF feature # NoFeature /\ feature \notin seen
            THEN <<feature>> \o extract_features(Tail(ts), seen \cup {feature})
            ELSE extract_features(Tail(ts), seen)
extract_features_from_tests(f) ==
  IF f.kind = "json" THEN extract_features(LoadTests(f), {}) ELSE <<>>

\* the reload left out: the tests loaded before the stamping are used
ReloadTests_Stale(f, tests) == tests

\* tests = json.loads(tests_json_path.read_text()) after the stamping
ReloadTests(f, tests) == LoadTests(f)

\* `if tests and feature_to_issue: last_progress = post_feature_progress(...)`
ProgressUpdates(tests, f2i, lp, iss, failAt, at) ==
  IF tests # <<>> /\ f2i # <<>>
    THEN post_feature_progress(tests, lp, iss, failAt, at)
    ELSE [lp |-> lp, issues |-> iss, calls |-> 0, raised |-> FALSE, raisedAt |-> NoIssue]

\* `for feature_id, issue_num in feature_to_issue.items():
\*    uploaded_screenshots = post_screenshots_to_issue(...)`
RECURSIVE ScreenshotsLoop(_, _, _, _)
ScreenshotsLoop(issue_nums, dir, iss, hashes) ==
  IF issue_nums = <<>> THEN [hashes |-> hashes, issues |-> iss]
  ELSE LET r == post_screenshots_to_issue(dir, Head(issue_nums), iss, hashes, 0, "asc")
       IN ScreenshotsLoop(Tail(issue_nums), dir, r.issues, r.hashes)
ScreenshotUpdates(tests, f2i, dir, iss, hashes) ==
  IF tests # <<>> /\ f2i # <<>>
    THEN ScreenshotsLoop(Ascending({f2i[f] : f \in DOMAIN f2i}), dir, iss, hashes)
    ELSE [hashes |-> hashes, issues |-> iss]

\* _update_metrics(**kw) by a caller that no other writer interleaves with
\* and whose write succeeds
UpdateMetrics(f, kw, t) ==
  Json(DictUpdate(DictUpdate(_read_metrics(f), kw), [last_updated |-> t]))

\* what a tick leaves in the log: the ledger it saw, the ledger the stamping
\* step found, the ledger it left, its tracker calls, the issues it created,
\* the tests it handed to post_feature_progress, whether a tracker call
\* failed, and whether the tick is still under way
TickEntry(seen, found, left, calls, created, tests, raised, open) ==
  [kind |-> seen.kind, seen |-> seen, found |-> found, left |-> left, calls |-> calls,
   created |-> created, tests |-> tests, raised |-> raised, open |-> open]

restOfStore == <<lockOwner, enabled, spc, kwargs, metrics, flushed, ret, ncalls>>
restOfLedger == <<passLog, callLog, stampMap, stampLog>>
restOfSteps == <<stampVars, sideVars, screenshots_dir, shotLog, pubVars>>
mainVars == <<exit_code, stop_heartbeat, session_state, commitPosts>>

\* `while agent_process.poll() is None`: the body runs, or the loop is left
\* and run_agent_with_monitoring returns agent_process.returncode
LoopPolls ==
  /\ mpc = "check"
  /\ IF agent.alive
       THEN mpc' = "body" /\ UNCHANGED exit_code
       ELSE mpc' = "stop" /\ exit_code' = agent.returncode
  /\ UNCHANGED <<agent, feature_issues_created, featureToIssue, stop_heartbeat,
                 session_state, commitPosts, tickLog>>
  /\ UNCHANGED <<storeVars, ledgerVars, stampVars, sideVars, shotVars, pubVars>>

\* time.sleep(10); progress_interval has not elapsed: continue
BodySkips ==
  /\ mpc = "body"
  /\ mpc' = "check"
  /\ UNCHANGED <<agent, feature_issues_created, featureToIssue, mainVars, tickLog>>
  /\ UNCHANGED <<storeVars, ledgerVars, stampVars, sideVars, shotVars, pubVars>>

\* a tick that finds the ledger absent or not parsable: continue
TickWaits ==
  /\ mpc = "body"
  /\ Len(tickLog) < MaxTicks
  /\ tests_json.kind # "json"
  /\ tickLog' = Append(tickLog,
                  TickEntry(tests_json, tests_json, tests_json, 0, {}, <<>>, FALSE, FALSE))
  /\ mpc' = "check"
  /\ UNCHANGED <<agent, feature_issues_created, featureToIssue, mainVars>>
  /\ UNCHANGED <<storeVars, ledgerVars, stampVars, sideVars, shotVars, pubVars>>

\* a tick that finds feature issues to create: the features are extracted
\* and create_feature_issues runs (lines 432-447).  In the ticks the tracker
\* answers every call of a function or fails from its first call on.
TickEnsures ==
  /\ mpc = "body"
  /\ Len(tickLog) < MaxTicks
  /\ tests_json.kind = "json"
  /\ ~feature_issues_created
  /\ LoadTests(tests_json) # <<>>
  /\ extract_features_from_tests(tests_json) # <<>>
  /\ LET features == extract_features_from_tests(tests_json)
     IN \E labelFails \in BOOLEAN :
        \E failAt \in 0..Min(1, RegistryCalls(features, issues, repoLabels)) :
          LET r == create_feature_issues(features, issues, repoLabels, failAt, labelFails)
          IN /\ featureToIssue' = r.map
             /\ issues' = r.issues
             /\ repoLabels' = r.repoLabels
             /\ tickLog' = Append(tickLog,
                   TickEntry(tests_json, tests_json, tests_json, r.calls,
                             (Len(issues) + 1)..Len(r.issues), <<>>, r.raised, TRUE))
  /\ mpc' = "ensured"
  /\ UNCHANGED <<agent, feature_issues_created, mainVars>>
  /\ UNCHANGED <<tests_json, flips, last_progress, restOfLedger>>
  /\ UNCHANGED <<storeVars, stampVars, sideVars, shotVars, pubVars>>

\* the rest of that tick (lines 449-475): the stamping and the reload when
\* issues were found or made, then the progress and screenshot updates.  The
\* reload is not inside a try block: when it raises, the exception leaves
\* run_agent_with_monitoring.
TickStamps ==
  /\ mpc = "ensured"
  /\ LET n == Len(tickLog)
         e == tickLog[n]
         stamped == IF featureToIssue # <<>>
                      THEN assign_issue_numbers_to_tests(tests_json, featureToIssue)
                      ELSE tests_json
     IN IF featureToIssue # <<>> /\ stamped.kind # "json"
          THEN /\ mpc' = "raised"
               /\ tests_json' = stamped
               /\ tickLog' = [tickLog EXCEPT ![n] =
                     [e EXCEPT !.found = tests_json, !.left = stamped, !.open = FALSE]]
               /\ UNCHANGED <<feature_issues_created, last_progress, issues,
                              uploaded_screenshots>>
          ELSE LET tests == IF featureToIssue # <<>>
                              THEN ReloadTests(stamped, LoadTests(e.seen))
                              ELSE LoadTests(e.seen)
               IN \E failAt \in 0..Min(1, ProgressUpdates(tests, featureToIssue,
                                                    last_progress, issues, 0, n).calls) :
                    LET r == ProgressUpdates(tests, featureToIssue, last_progress,
                                             issues, failAt, n)
                        shots == ScreenshotUpdates(tests, featureToIssue, screenshots_dir,
                                                   r.issues, uploaded_screenshots)
                    IN /\ mpc' = "check"
                       /\ tests_json' = stamped
                       /\ feature_issues_created' = TRUE
                       /\ last_progress' = r.lp
                       /\ issues' = shots.issues
                       /\ uploaded_screenshots' = shots.hashes
                       /\ tickLog' = [tickLog EXCEPT ![n] =
                             [e EXCEPT !.found = tests_json, !.left = stamped,
                                       !.calls = @ + r.calls, !.tests = tests,
                                       !.raised = @ \/ r.raised, !.open = FALSE]]
  /\ UNCHANGED <<agent, featureToIssue, mainVars>>
  /\ UNCHANGED <<flips, repoLabels, restOfLedger>>
  /\ UNCHANGED <<storeVars, restOfSteps>>

\* a tick that has no feature issues to create: the progress and screenshot
\* updates run on the tests it loaded
TickReconciles ==
  /\ mpc = "body"
  /\ Len(tickLog) < MaxTicks
  /\ tests_json.kind = "json"
  /\ \/ feature_issues_created
     \/ LoadTests(tests_json) = <<>>
     \/ extract_features_from_tests(tests_json) = <<>>
  /\ LET tests == LoadTests(tests_json)
         n == Len(tickLog) + 1
     IN /\ feature_issues_created' = (feature_issues_created \/ tests # <<>>)
        /\ \E failAt \in 0..Min(1, ProgressUpdates(tests, featureToIssue, last_progress,
                                             issues, 0, n).calls) :
             LET r == ProgressUpdates(tests, featureToIssue, last_progress, issues, failAt, n)
                 shots == ScreenshotUpdates(tests, featureToIssue, screenshots_dir,
                                            r.issues, uploaded_screenshots)
             IN /\ last_progress' = r.lp
                /\ issues' = shots.issues
                /\ uploaded_screenshots' = shots.hashes
                /\ tickLog' = Append(tickLog,
                      TickEntry(tests_json, tests_json, tests_json, r.calls, {}, tests,
                                r.raised, FALSE))
  /\ mpc' = "check"
  /\ UNCHANGED <<agent, featureToIssue, mainVars>>
  /\ UNCHANGED <<tests_json, flips, repoLabels, restOfLedger>>
  /\ UNCHANGED <<storeVars, restOfSteps>>

\* stop_heartbeat.set()
StopsHeartbeat ==
  /\ mpc = "stop"
  /\ stop_heartbeat' = TRUE
  /\ mpc' = "commits"
  /\ UNCHANGED <<agent, feature_issues_created, featureToIssue, exit_code,
                 session_state, commitPosts, tickLog>>
  /\ UNCHANGED <<storeVars, ledgerVars, stampVars, sideVars, shotVars, pubVars>>

\* post_commits_to_issue: the summary is posted to the issue of the session,
\* or a failure is caught inside and nothing is posted
PostsCommits ==
  /\ mpc = "commits"
  /\ commitPosts' = commitPosts + 1
  /\ \E posted \in BOOLEAN :
       issues' = IF posted
                   THEN [issues EXCEPT ![1].comments = Append(@, [kind |-> "commits", at |-> 0])]
                   ELSE issues
  /\ mpc' = "state"
  /\ UNCHANGED <<agent, feature_issues_created, featureToIssue, exit_code,
                 stop_heartbeat, session_state, tickLog>>
  /\ UNCHANGED <<tests_json, flips, last_progress, repoLabels, restOfLedger>>
  /\ UNCHANGED <<storeVars, stampVars, sideVars, shotVars, pubVars>>

\* write_session_state(build_dir, session_id, issue_number, "completed")
WritesSessionState ==
  /\ mpc = "state"
  /\ session_state' = "completed"
  /\ mpc' = "complete"
  /\ UNCHANGED <<agent, feature_issues_created, featureToIssue, exit_code,
                 stop_heartbeat, commitPosts, tickLog>>
  /\ UNCHANGED <<storeVars, ledgerVars, stampVars, sideVars, shotVars, pubVars>>

\* metrics_publisher.publish_session_completed(exit_code, duration); return
PublishesCompleted ==
  /\ mpc = "complete"
  /\ now' = now + 1
  /\ file' = UpdateMetrics(file, CompletedKwargs(now', exit_code), now')
  /\ mpc' = "returned"
  /\ UNCHANGED <<agent, feature_issues_created, featureToIssue, mainVars, tickLog>>
  /\ UNCHANGED <<restOfStore, ledgerVars, stampVars, sideVars, shotVars, pubVars>>

\* `except Exception as e` of main: publish_error(type(e).__name__); return 1
MainExcept ==
  /\ mpc = "raised"
  /\ now' = now + 1
  /\ file' = UpdateMetrics(file, ErrorKwargs(_read_metrics(file), "JSONDecodeError", now'),
                           now')
  /\ mpc' = "failed"
  /\ UNCHANGED <<agent, feature_issues_created, featureToIssue, mainVars, tickLog>>
  /\ UNCHANGED <<restOfStore, ledgerVars, stampVars, sideVars, shotVars, pubVars>>

\* ---- the subprocess ----
\* records as the subprocess first writes them
LoopRecordChoices == {TestRecord(f, NoIssue, FALSE) : f \in Features \cup {NoFeature}}
\* the ledgers it writes, up to the names of the features: the first feature
\* of a ledger is "login"
LoopLedgers ==
  {recs \in UNION {[1..n -> LoopRecordChoices] : n \in 1..MaxTests} :
     \A k \in 1..Len(recs) :
       recs[k].feature = "cart" => \E j \in 1..(k - 1) : recs[j].feature = "login"}

\* The subprocess changes the ledger only while a tick is still to come, and
\* is in the middle of a write only while a tick is still to come after the
\* one that may find the ledger unreadable.
TicksLeft == MaxTicks - Len(tickLog)

SubprocessCreatesLedger ==
  /\ agent.alive
  /\ TicksLeft >= 1
  /\ tests_json.kind = "absent"
  /\ \E recs \in LoopLedgers : tests_json' = LedgerFile("raw", recs)
  /\ UNCHANGED <<flips, last_progress, issues, repoLabels, restOfLedger>>
  /\ UNCHANGED <<storeVars, extVars>>

SubprocessFlipsInLoop ==
  /\ agent.alive
  /\ TicksLeft >= 1
  /\ SubprocessFlips
  /\ UNCHANGED <<storeVars, extVars>>

SubprocessStartsWrite ==
  /\ agent.alive
  /\ TicksLeft >= 2 \/ (mpc = "ensured" /\ TicksLeft >= 1)
  /\ tests_json.kind = "json"
  /\ flips < MaxFlips
  /\ flips' = flips + 1
  /\ tests_json' = PartialLedger(tests_json.recs)
  /\ UNCHANGED <<last_progress, issues, repoLabels, restOfLedger>>
  /\ UNCHANGED <<storeVars, extVars>>

SubprocessEndsWrite ==
  /\ tests_json.kind = "corrupt"
  /\ tests_json' = LedgerFile("raw", tests_json.recs)
  /\ UNCHANGED <<flips, last_progress, issues, repoLabels, restOfLedger>>
  /\ UNCHANGED <<storeVars, extVars>>

\* The exit is seen by poll() only (or by nobody, once main has ended): an
\* exit during the sleep or the tick is taken as falling right after them.
SubprocessExits ==
  /\ agent.alive
  /\ mpc \in {"check", "failed"}
  /\ tests_json.kind # "corrupt"
  /\ \E code \in {0, 1} : agent' = [alive |-> FALSE, returncode |-> code]
  /\ UNCHANGED <<mpc, feature_issues_created, featureToIssue, mainVars, tickLog>>
  /\ UNCHANGED <<storeVars, ledgerVars, stampVars, sideVars, shotVars, pubVars>>

\* main has published the session start, written the session state and
\* started the subprocess; the tracker holds the issue of the session
InitLoop ==
  /\ file = Json(StartedSnapshot(0))
  /\ lockOwner = NoOwner
  /\ enabled = TRUE
  /\ now = 0
  /\ spc = [p \in Callers |-> "idle"]
  /\ kwargs = [p \in Callers |-> EmptyDict]
  /\ metrics = [p \in Callers |-> EmptyDict]
  /\ flushed = [p \in Callers |-> TRUE]
  /\ ret = [p \in Callers |-> FALSE]
  /\ ncalls = [p \in Callers |-> 0]
  /\ tests_json = AbsentLedger
  /\ flips = 0
  /\ last_progress = <<>>
  /\ issues = <<Issue("open", {"agent"})>>
  /\ repoLabels = {"agent"}
  /\ passLog = <<>>
  /\ callLog = <<>>
  /\ stampMap = <<>>
  /\ stampLog = <<>>
  /\ StepsIdle
  /\ agent = [alive |-> TRUE, returncode |-> NoExitCode]
  /\ mpc = "check"
  /\ feature_issues_created = FALSE
  /\ featureToIssue = <<>>
  /\ exit_code = NoExitCode
  /\ stop_heartbeat = FALSE
  /\ session_state = "running"
  /\ commitPosts = 0
  /\ tickLog = <<>>

NextLoop ==
  \/ LoopPolls
  \/ BodySkips
  \/ TickWaits
  \/ TickEnsures
  \/ TickStamps
  \/ TickReconciles
  \/ StopsHeartbeat
  \/ PostsCommits
  \/ WritesSessionState
  \/ PublishesCompleted
  \/ MainExcept
  \/ SubprocessCreatesLedger
  \/ SubprocessFlipsInLoop
  \/ SubprocessStartsWrite
  \/ SubprocessEndsWrite
  \/ SubprocessExits

SpecLoop == InitLoop /\ [][NextLoop]_vars

(***************************************************************************)
(* main from its first line to the launch of the subprocess                *)
(***************************************************************************)
\* What main finds: AGENT_PAYLOAD (not JSON, without issue_number, without
\* github_repo, or complete), the credentials present, whether
\* local_metrics could be imported, and the step of the try block that
\* will raise.
Payloads == {"invalid", "no_issue", "no_repo", "ok"}
Cfgs ==
  [payload : Payloads, oauth : BOOLEAN, api_key : BOOLEAN, github : BOOLEAN,
   available : BOOLEAN, fails : {"none", "setup", "launch"}]

\* `return 1`
Returns1 ==
  /\ exit_code' = 1
  /\ mpc' = "returned"

startRest == <<agent, feature_issues_created, featureToIssue, stop_heartbeat,
               commitPosts, tickLog>>
startOthers == <<ledgerVars, stampVars, shotVars, pubVars, hbVars, pureVars, connVars>>

\* payload = json.loads(payload_str), or return 1
ParsesPayload ==
  /\ mpc = "parse"
  /\ IF cfg.payload = "invalid" THEN Returns1 ELSE mpc' = "auth" /\ UNCHANGED exit_code
  /\ UNCHANGED <<cfg, metrics_publisher, session_state, startRest, storeVars>>

\* the OAuth token is preferred to the API key; without either, return 1
GetsCredentials ==
  /\ mpc = "auth"
  /\ IF ~cfg.oauth /\ ~cfg.api_key THEN Returns1
       ELSE mpc' = "token" /\ UNCHANGED exit_code
  /\ UNCHANGED <<cfg, metrics_publisher, session_state, startRest, storeVars>>

\* github_token = get_github_token(), or return 1
GetsGithubToken ==
  /\ mpc = "token"
  /\ IF ~cfg.github THEN Returns1 ELSE mpc' = "construct" /\ UNCHANGED exit_code
  /\ UNCHANGED <<cfg, metrics_publisher, session_state, startRest, storeVars>>

\* metrics_publisher = LocalMetricsPublisher(...) if METRICS_AVAILABLE
ConstructsPublisher ==
  /\ mpc = "construct"
  /\ metrics_publisher' = cfg.available
  /\ mpc' = "details"
  /\ UNCHANGED <<cfg, exit_code, session_state, startRest, storeVars>>

\* `if not issue_number or not github_repo: return 1`
ChecksPayload ==
  /\ mpc = "details"
  /\ IF cfg.payload \in {"no_issue", "no_repo"} THEN Returns1
       ELSE mpc' = "start" /\ UNCHANGED exit_code
  /\ UNCHANGED <<cfg, metrics_publisher, session_state, startRest, storeVars>>

\* `if metrics_publisher: metrics_publisher.publish_session_started(...)`
PublishesStart ==
  /\ mpc = "start"
  /\ IF metrics_publisher
       THEN now' = now + 1 /\ file' = Json(StartedSnapshot(now'))
       ELSE UNCHANGED <<now, file>>
  /\ mpc' = "workspace"
  /\ UNCHANGED <<cfg, metrics_publisher, exit_code, session_state, startRest, restOfStore>>

\* setup_agent_runtime, write_session_state(.., "running") and the feature
\* request: any of them may raise
SetsUpWorkspace ==
  /\ mpc = "workspace"
  /\ IF cfg.fails = "setup"
       THEN mpc' = "raised" /\ UNCHANGED session_state
       ELSE mpc' = "launch" /\ session_state' = "running"
  /\ UNCHANGED <<cfg, metrics_publisher, exit_code, startRest, storeVars>>

\* the heartbeat thread is started and run_agent_with_monitoring starts the
\* subprocess, or subprocess.Popen raises
Launches ==
  /\ mpc = "launch"
  /\ IF cfg.fails = "launch"
       THEN mpc' = "raised" /\ UNCHANGED agent
       ELSE mpc' = "check" /\ agent' = [alive |-> TRUE, returncode |-> NoExitCode]
  /\ UNCHANGED <<cfg, metrics_publisher, exit_code, session_state, storeVars>>
  /\ UNCHANGED <<feature_issues_created, featureToIssue, stop_heartbeat, commitPosts, tickLog>>

\* `except Exception as e`: publish_error when there is a publisher; return 1
StartExcept ==
  /\ mpc = "raised"
  /\ IF metrics_publisher
       THEN /\ now' = now + 1
            /\ file' = UpdateMetrics(file,
                          ErrorKwargs(_read_metrics(file), "CalledProcessError", now'), now')
       ELSE UNCHANGED <<now, file>>
  /\ exit_code' = 1
  /\ mpc' = "failed"
  /\ UNCHANGED <<cfg, metrics_publisher, session_state, startRest, restOfStore>>

\* main is entered; the status file is absent or holds the snapshot an
\* earlier session left
InitStart ==
  /\ file \in {Missing, Json(StartedSnapshot(0))}
  /\ lockOwner = NoOwner
  /\ enabled = TRUE
  /\ now = 0
  /\ spc = [p \in Callers |-> "idle"]
  /\ kwargs = [p \in Callers |-> EmptyDict]
  /\ metrics = [p \in Callers |-> EmptyDict]
  /\ flushed = [p \in Callers |-> TRUE]
  /\ ret = [p \in Callers |-> FALSE]
  /\ ncalls = [p \in Callers |-> 0]
  /\ LedgerIdle
  /\ WorkIdle
  /\ HbIdle
  /\ ConnIdle
  /\ PureIdle
  /\ cfg \in Cfgs
  /\ metrics_publisher = FALSE
  /\ agent = NotStarted
  /\ mpc = "parse"
  /\ feature_issues_created = FALSE
  /\ featureToIssue = <<>>
  /\ exit_code = NoExitCode
  /\ stop_heartbeat = FALSE
  /\ session_state = "none"
  /\ commitPosts = 0
  /\ tickLog = <<>>

NextStart ==
  \/ ParsesPayload /\ UNCHANGED startOthers
  \/ GetsCredentials /\ UNCHANGED startOthers
  \/ GetsGithubToken /\ UNCHANGED startOthers
  \/ ConstructsPublisher /\ UNCHANGED startOthers
  \/ ChecksPayload /\ UNCHANGED startOthers
  \/ PublishesStart /\ UNCHANGED startOthers
  \/ SetsUpWorkspace /\ UNCHANGED startOthers
  \/ Launches /\ UNCHANGED startOthers
  \/ StartExcept /\ UNCHANGED startOthers

SpecStart == InitStart /\ [][NextStart]_vars

\* main has returned because of a fatal failure
FatalReturn == mpc \in {"returned", "failed"}

\* C26: every fatal failure (no credentials, no issue_number or github_repo
\* in the payload, an exception in the workspace setup or the launch) makes
\* main return a non-zero exit code, and when the publisher has been
\* constructed by then, the status store says error when main returns.
C26_FatalFailureRecorded ==
  FatalReturn =>
    /\ exit_code > 0
    /\ metrics_publisher => Get(_read_metrics(file), "status", NoStatus) = "error"

(***************************************************************************)
(* Claims about the monitoring loop                                        *)
(***************************************************************************)
Ticks == 1..Len(tickLog)
\* tick n ran to its end on a ledger of one record that has a feature, the
\* subprocess did not write between its two steps and no tracker call failed
OneRecordTick(n) ==
  LET e == tickLog[n]
  IN /\ e.kind = "json"
     /\ ~e.open
     /\ Len(e.seen.recs) = 1
     /\ e.seen.recs[1].feature # NoFeature
     /\ e.found = e.seen
     /\ ~e.raised
\* the comments tick n posted to issue i
TickComments(n, i) == SelectSeq(issues[i].comments, LAMBDA c : c.at = n)

\* C15: ledger absent at tick n and present with one record at tick n+1:
\* tick n makes no tracker call, creates nothing and leaves the ledger as it
\* is; tick n+1 creates exactly one issue, stamps the record with it, and
\* hands the stamped record to post_feature_progress, which comments on the
\* new issue.
C15_AbsentThenOneRecord ==
  \A n \in Ticks :
    (n + 1 \in Ticks /\ tickLog[n].kind = "absent" /\ OneRecordTick(n + 1)) =>
      /\ tickLog[n].calls = 0
      /\ tickLog[n].created = {}
      /\ tickLog[n].left = tickLog[n].seen
      /\ LET e == tickLog[n + 1]
         IN /\ Cardinality(e.created) = 1
            /\ Len(e.left.recs) = 1
            /\ e.seen.recs[1].issueNumber = NoIssue
            /\ e.left.recs[1].issueNumber \in e.created
            /\ e.left.recs[1].feature = e.seen.recs[1].feature
            /\ e.tests = e.left.recs
            /\ Len(TickComments(n + 1, e.left.recs[1].issueNumber)) = 1

\* the first tick found no ledger, the second a ledger of one record, made
\* issue 2 for it and posted its progress there
C15_Witness ==
  /\ Len(tickLog) = 2
  /\ tickLog[1].kind = "absent"
  /\ OneRecordTick(2)
  /\ tickLog[2].created = {2}
  /\ tickLog[2].left.recs[1].issueNumber = 2
  /\ tickLog[2].calls > 0
  /\ Len(issues[2].comments) = 1

AgentExited == ~agent.alive
\* main has returned, from its try block or from its except block
MainEnded == mpc \in {"returned", "failed"}
\* main has returned the exit code of the subprocess and the snapshot says
\* completed with that code
CompletionRecorded ==
  /\ mpc = "returned"
  /\ exit_code = agent.returncode
  /\ Get(_read_metrics(file), "status", NoStatus) = "completed"
  /\ Get(_read_metrics(file), "exit_code", NoExitCode) = agent.returncode

\* C16: when the subprocess has exited, the loop ends by returning its exit
\* code; the heartbeat stop signal is set after that, the commit summary is
\* attempted exactly once after that, and the completion with that exit code
\* is recorded in the status store after that: main does not end otherwise.
C16_ExitLeadsToCompletion ==
  /\ (AgentExited /\ MainEnded) => CompletionRecorded
  /\ commitPosts <= 1
  /\ commitPosts = 1 => stop_heartbeat
  /\ stop_heartbeat => AgentExited /\ exit_code = agent.returncode
  /\ Get(_read_metrics(file), "status", NoStatus) = "completed" =>
       commitPosts = 1 /\ stop_heartbeat

\* the records stamped with issue i show v passing tests
CountIs(i, v) ==
  /\ tests_json.kind = "json"
  /\ Stamped(tests_json.recs, i) # {}
  /\ PassedCount(tests_json.recs, i) = v
\* a comment for count v is on issue i, which is closed when v is all of them
CountPosted(i, v) ==
  /\ \E k \in 1..Len(issues[i].comments) : issues[i].comments[k].passed = v
  /\ v = TotalCount(tests_json.recs, i) => issues[i].state = "closed"
TrackerFailed == \E n \in Ticks : tickLog[n].raised

\* C17: no change of the passed count of a stamped issue made while the
\* subprocess ran is missed: when main has returned after the loop and no
\* tracker call has failed, every stamped issue has a comment for the count
\* its records show (and is closed when all of them pass).
C17_NoTransitionMissed ==
  (mpc = "returned" /\ ~TrackerFailed) =>
    \A i \in DOMAIN issues : \A v \in 0..MaxTests :
      CountIs(i, v) => CountPosted(i, v)

\* C27: a ledger that exists but does not parse at a read of a tick is no
\* data for that tick: the tick makes no tracker call and leaves the ledger
\* as it is, and the loop goes on: no exception leaves
\* run_agent_with_monitoring.
C27_UnparsableLedgerIsNoData ==
  /\ \A n \in Ticks :
       tickLog[n].kind = "corrupt" =>
         tickLog[n].calls = 0 /\ tickLog[n].left = tickLog[n].seen
  /\ mpc \notin {"raised", "failed"}

\* C39: when main has returned after the launch, from its try block or
\* from its except block, the subprocess has exited and the heartbeat stop
\* signal is set.
C39_ReturnsAfterSubprocess ==
  MainEnded => (AgentExited /\ stop_heartbeat)

\* C34: a feature of the ledger gets its entry in the feature-to-issue map
\* at the latest in the first tick that sees it after the ticks in which
\* the tracker failed: when the last tick has ended, read the ledger and
\* had no tracker failure while the subprocess runs, every feature of the
\* ledger it read has an entry in the map.
C34_FeaturesGetIssues ==
  (/\ tickLog # <<>>
   /\ agent.alive
   /\ ~tickLog[Len(tickLog)].open
   /\ ~tickLog[Len(tickLog)].raised
   /\ tickLog[Len(tickLog)].kind = "json")
  => \A k \in 1..Len(tickLog[Len(tickLog)].seen.recs) :
       LET feature == tickLog[Len(tickLog)].seen.recs[k].feature
       IN feature # NoFeature => feature \in DOMAIN featureToIssue

(***************************************************************************)
(* extract_features_from_tests on any ledger                               *)
(***************************************************************************)
MaxLedgerLen == 3    \* records of the ledger features are extracted from

ExtractRecordChoices ==
  {TestRecord(f, NoIssue, p) : f \in Features \cup {NoFeature}, p \in BOOLEAN}
ExtractLedgers ==
  {LedgerFile("raw", recs) :
     recs \in UNION {[1..n -> ExtractRecordChoices] : n \in 0..MaxLedgerLen}}
    \cup {AbsentLedger}
    \cup {PartialLedger(<<r>>) : r \in ExtractRecordChoices}

\* features = extract_features_from_tests(tests_json_path)
Extract ==
  /\ ~extracted.done
  /\ extracted' = [done |-> TRUE, features |-> extract_features_from_tests(tests_json)]
  /\ UNCHANGED <<cfg, metrics_publisher, hpc, beats, environ, auth, child_env, connVars>>
  /\ UNCHANGED <<storeVars, ledgerVars, stampVars, shotVars, pubVars, loopVars>>

InitExtract ==
  /\ StoreIdle
  /\ tests_json \in ExtractLedgers
  /\ flips = 0
  /\ last_progress = <<>>
  /\ issues = <<>>
  /\ repoLabels = {}
  /\ passLog = <<>>
  /\ callLog = <<>>
  /\ stampMap = <<>>
  /\ stampLog = <<>>
  /\ ExtIdle

NextExtract == Extract

SpecExtract == InitExtract /\ [][NextExtract]_vars

\* the records extract_features_from_tests could read
Readable == IF tests_json.kind = "json" THEN tests_json.recs ELSE <<>>
FirstIndex(f) ==
  CHOOSE k \in 1..Len(Readable) :
    /\ Readable[k].feature = f
    /\ \A j \in 1..(k - 1) : Readable[j].feature # f

\* C28: extract_features_from_tests returns every non-empty feature of the
\* ledger exactly once, in the order of first occurrence; records without
\* a feature add nothing, and a missing ledger gives the empty sequence.
C28_ExtractFeatures ==
  extracted.done =>
    LET fs == extracted.features
    IN /\ \A i, j \in 1..Len(fs) : i # j => fs[i] # fs[j]
       /\ {fs[i] : i \in 1..Len(fs)} =
            {Readable[k].feature : k \in 1..Len(Readable)} \ {NoFeature}
       /\ \A i, j \in 1..Len(fs) : i < j => FirstIndex(fs[i]) < FirstIndex(fs[j])
       /\ tests_json.kind = "absent" => fs = <<>>

\* the ledger names cart, nothing, login and cart again
C28_Witness ==
  /\ extracted.done
  /\ tests_json.kind = "json"
  /\ Len(tests_json.recs) = 3
  /\ tests_json.recs[1].feature = "cart"
  /\ tests_json.recs[2].feature = "login"
  /\ tests_json.recs[3].feature = "cart"
  /\ extracted.features = <<"cart", "login">>

(***************************************************************************)
(* The environment handed to the build subprocess                          *)
(***************************************************************************)
API_KEY == "ANTHROPIC_API_KEY"
OAUTH_TOKEN == "CLAUDE_CODE_OAUTH_TOKEN"
EnvKeys == {API_KEY, OAUTH_TOKEN, "PATH"}
EnvValues == {"inherited", "secret"}
Environs == UNION {[K -> EnvValues] : K \in SUBSET EnvKeys}
Auths == [type : {"oauth", "api_key"}, token : {"secret", "other"}]

\* env[k] = v
DictSet(d, k, v) == (k :> v) @@ d

\* env.pop(k, None) left out
DictPop_Keeps(d, k) == d

\* env.pop(k, None)
DictPop(d, k) == [x \in DOMAIN d \ {k} |-> d[x]]

\* env = os.environ.copy() and the branch on auth_type, in
\* run_agent_with_monitoring
monitoring_env(env, auth_type, auth_token) ==
  IF auth_type = "oauth"
    THEN DictPop(DictSet(env, OAUTH_TOKEN, auth_token), API_KEY)
    ELSE DictPop(DictSet(env, API_KEY, auth_token), OAUTH_TOKEN)

\* the same lines in run_agent
run_agent_env(env, auth_type, auth_token) ==
  IF auth_type = "oauth"
    THEN DictPop(DictSet(env, OAUTH_TOKEN, auth_token), API_KEY)
    ELSE DictPop(DictSet(env, API_KEY, auth_token), OAUTH_TOKEN)

envRest == <<cfg, metrics_publisher, hpc, beats, extracted, connVars>>

\* run_agent_with_monitoring up to subprocess.Popen(cmd, cwd=.., env=env)
MonitoringLaunch ==
  /\ child_env = NoEnv
  /\ child_env' = monitoring_env(environ, auth.type, auth.token)
  /\ UNCHANGED <<environ, auth, envRest>>
  /\ UNCHANGED <<storeVars, ledgerVars, stampVars, shotVars, pubVars, loopVars>>

\* run_agent up to subprocess.Popen(cmd, cwd=.., env=env)
RunAgentLaunch ==
  /\ child_env = NoEnv
  /\ child_env' = run_agent_env(environ, auth.type, auth.token)
  /\ UNCHANGED <<environ, auth, envRest>>
  /\ UNCHANGED <<storeVars, ledgerVars, stampVars, shotVars, pubVars, loopVars>>

InitEnv ==
  /\ StoreIdle
  /\ LedgerIdle
  /\ WorkIdle
  /\ LoopIdle
  /\ StartIdle
  /\ HbIdle
  /\ ConnIdle
  /\ extracted = NotExtracted
  /\ environ \in Environs
  /\ auth \in Auths
  /\ child_env = NoEnv

NextEnv ==
  \/ MonitoringLaunch
  \/ RunAgentLaunch

SpecEnv == InitEnv /\ [][NextEnv]_vars

\* the subprocess has been given its environment
Launched == child_env # NoEnv
Selected == IF auth.type = "oauth" THEN OAUTH_TOKEN ELSE API_KEY
Unselected == IF auth.type = "oauth" THEN API_KEY ELSE OAUTH_TOKEN

\* C29: in the environment handed to the subprocess the credential variable
\* selected by auth_type is set to auth_token and the other one is absent,
\* whatever the inherited environment held; every other variable is
\* inherited.
C29_ExactlyOneCredential ==
  Launched =>
    /\ Selected \in DOMAIN child_env
    /\ child_env[Selected] = auth.token
    /\ Unselected \notin DOMAIN child_env
    /\ \A k \in DOMAIN environ \ {API_KEY, OAUTH_TOKEN} :
         k \in DOMAIN child_env /\ child_env[k] = environ[k]

\* the supervisor inherited both variables, with values other than the
\* token; the subprocess gets the OAuth token only
C29_Witness ==
  /\ Launched
  /\ auth = [type |-> "oauth", token |-> "other"]
  /\ {API_KEY, OAUTH_TOKEN, "PATH"} \subseteq DOMAIN environ
  /\ environ[OAUTH_TOKEN] = "inherited"
  /\ child_env[OAUTH_TOKEN] = "other"
  /\ DOMAIN child_env = {OAUTH_TOKEN, "PATH"}

(***************************************************************************)
(* The heartbeat thread next to main                                       *)
(***************************************************************************)
MaxBeats == 2        \* iterations of heartbeat_loop

hbRest == <<cfg, metrics_publisher, pureVars, connVars>>
hbOthers == <<ledgerVars, stampVars, shotVars, pubVars, loopVars>>

\* `while not stop_heartbeat.is_set()`: an iteration starts, or the thread
\* returns
HeartbeatChecks ==
  /\ hpc = "check"
  /\ IF stop_heartbeat
       THEN hpc' = "done" /\ UNCHANGED beats
       ELSE beats < MaxBeats /\ beats' = beats + 1 /\ hpc' = "progress"
  /\ UNCHANGED <<hbRest, storeVars, hbOthers>>

\* metrics_publisher.publish_progress(elapsed_hours=.., remaining_hours=..)
HeartbeatProgress ==
  /\ hpc = "progress"
  /\ now' = now + 1
  /\ file' = UpdateMetrics(file, ProgressKwargs(now'), now')
  /\ hpc' = "beat"
  /\ UNCHANGED <<beats, hbRest, restOfStore, hbOthers>>

\* metrics_publisher.publish_session_heartbeat()
HeartbeatBeats ==
  /\ hpc = "beat"
  /\ now' = now + 1
  /\ file' = UpdateMetrics(file, HeartbeatKwargs(now'), now')
  /\ hpc' = "wait"
  /\ UNCHANGED <<beats, hbRest, restOfStore, hbOthers>>

\* stop_heartbeat.wait(60) returns: after 60 seconds, or because the event
\* is set
HeartbeatWakes ==
  /\ hpc = "wait"
  /\ hpc' = "check"
  /\ UNCHANGED <<beats, hbRest, storeVars, hbOthers>>

\* sys.exit(main()): the interpreter exits once main has returned; it does
\* not wait for a daemon thread, which stops wherever it is
ProcessExits ==
  /\ mpc = "returned"
  /\ hpc \in {"check", "progress", "beat", "wait"}
  /\ hpc' = "killed"
  /\ UNCHANGED <<beats, hbRest, storeVars, hbOthers>>

\* main has started the heartbeat thread and the subprocess, which writes
\* no ledger
InitHeartbeat ==
  /\ file = Json(StartedSnapshot(0))
  /\ lockOwner = NoOwner
  /\ enabled = TRUE
  /\ now = 0
  /\ spc = [p \in Callers |-> "idle"]
  /\ kwargs = [p \in Callers |-> EmptyDict]
  /\ metrics = [p \in Callers |-> EmptyDict]
  /\ flushed = [p \in Callers |-> TRUE]
  /\ ret = [p \in Callers |-> FALSE]
  /\ ncalls = [p \in Callers |-> 0]
  /\ tests_json = AbsentLedger
  /\ flips = 0
  /\ last_progress = <<>>
  /\ issues = <<Issue("open", {"agent"})>>
  /\ repoLabels = {"agent"}
  /\ passLog = <<>>
  /\ callLog = <<>>
  /\ stampMap = <<>>
  /\ stampLog = <<>>
  /\ WorkIdle
  /\ PureIdle
  /\ ConnIdle
  /\ cfg = NoCfg
  /\ metrics_publisher = TRUE
  /\ hpc = "check"
  /\ beats = 0
  /\ agent = [alive |-> TRUE, returncode |-> NoExitCode]
  /\ mpc = "check"
  /\ feature_issues_created = FALSE
  /\ featureToIssue = <<>>
  /\ exit_code = NoExitCode
  /\ stop_heartbeat = FALSE
  /\ session_state = "running"
  /\ commitPosts = 0
  /\ tickLog = <<>>

NextHeartbeat ==
  \/ HeartbeatChecks
  \/ HeartbeatProgress
  \/ HeartbeatBeats
  \/ HeartbeatWakes
  \/ ProcessExits
  \/ LoopPolls
  \/ BodySkips
  \/ SubprocessExits
  \/ StopsHeartbeat
  \/ PostsCommits
  \/ WritesSessionState
  \/ PublishesCompleted

SpecHeartbeat == InitHeartbeat /\ [][NextHeartbeat]_vars

\* the thread is inside an iteration: between its test of the stop signal
\* and the end of its heartbeat write
MidIteration == hpc \in {"progress", "beat"}

\* C30: the heartbeat thread looks at the stop signal at iteration
\* boundaries only: once the signal is set no iteration starts, and an
\* iteration under way makes its progress write and its heartbeat write and
\* reaches its wait: it is not cut short.
C30_StopAtIterationBoundary ==
  [][/\ (stop_heartbeat /\ ~MidIteration) => hpc' # "progress"
     /\ hpc = "progress" => hpc' \in {"progress", "beat"}
     /\ hpc = "beat" => hpc' \in {"beat", "wait"}]_vars

\* C33: once main has returned on the normal path, the snapshot has status
\* completed and holds the exit_code and duration_seconds that
\* publish_session_completed wrote, whatever the heartbeat thread does.
C33_TerminalEventStays ==
  mpc = "returned" =>
    /\ file.kind = "json"
    /\ Get(file.data, "status", "none") = "completed"
    /\ Get(file.data, "exit_code", NoExitCode) = exit_code
    /\ "duration_seconds" \in DOMAIN file.data

(***************************************************************************)
(* The progress comment over many counts                                   *)
(***************************************************************************)
MaxTotal == 21       \* records of the one feature

\* a ledger of total records of issue 1, the first passed of them passing
BarLedger(total, passed) == [k \in 1..total |-> TestRecord("login", 1, k <= passed)]

\* The ledger is stamped, nothing has been posted yet.
InitBar ==
  /\ StoreIdle
  /\ ExtIdle
  /\ \E total \in 1..MaxTotal, passed \in 0..MaxTotal :
       /\ passed <= total
       /\ tests_json = LedgerFile("indent2", BarLedger(total, passed))
  /\ flips = 0
  /\ last_progress = <<>>
  /\ issues = <<Issue("open", IssueLabels(1))>>
  /\ repoLabels = {}
  /\ passLog = <<>>
  /\ callLog = <<>>
  /\ stampMap = <<>>
  /\ stampLog = <<>>

NextBar == ReconcilePass /\ UNCHANGED <<storeVars, extVars>>

SpecBar == InitBar /\ [][NextBar]_vars

ProgressComments(k) == SelectSeq(issues[k].comments, LAMBDA c : c.kind = "progress")
Abs(x) == IF x < 0 THEN 0 - x ELSE x

\* C32: every progress comment was posted for an issue whose records do not
\* all pass; it prints the passed and total counts of the issue's records in
\* the ledger the pass read, its bar has exactly 20 cells of which
\* floor(20 * passed / total) are filled, a number from 0 to 19, and the
\* percentage it prints is 100 * passed / total rounded to a nearest integer.
C32_ProgressBar ==
  \A k \in DOMAIN issues :
    \A j \in 1..Len(ProgressComments(k)) :
      LET c == ProgressComments(k)[j]
          feature_tests == FeatureTests(passLog[c.at].tests, k)
      IN /\ c.passed = Passed(feature_tests)
         /\ c.total = Len(feature_tests)
         /\ c.total >= 1 /\ c.passed < c.total
         /\ c.cells = 20
         /\ c.filled * c.total <= 20 * c.passed
         /\ 20 * c.passed < (c.filled + 1) * c.total
         /\ c.filled \in 0..19
         /\ 2 * Abs(100 * c.passed - c.pct * c.total) <= c.total
\* a progress comment whose bar has 19 filled cells: all records but one pass
C32_Witness ==
  /\ ProgressComments(1) # <<>>
  /\ ProgressComments(1)[1].filled = 19
  /\ ProgressComments(1)[1].passed = ProgressComments(1)[1].total - 1

(***************************************************************************)
(* SSHAgentInvoker.connect                                                 *)
(***************************************************************************)
MaxRetries == 4      \* largest max_retries of an invoker

\* what self.client.connect(...) does: it returns, or raises
\* paramiko.AuthenticationException, or raises another exception
ConnectOutcomes == {"ok", "auth", "timeout", "refused"}

\* a delay that does not grow with the attempt
RetryDelay_Flat(n) == 5

\* delay = 5 * attempt
RetryDelay(n) == 5 * n

connOthers == <<storeVars, ledgerVars, stampVars, shotVars, pubVars, loopVars,
                startVars, hbVars, pureVars>>

\* connect() is called: `for attempt in range(1, self.max_retries + 1)`
\* starts, or has nothing to run and False is returned
ConnectCalled ==
  /\ cpc = "called"
  /\ IF max_retries >= 1
       THEN attempt' = 1 /\ cpc' = "connect"
       ELSE cpc' = "False" /\ UNCHANGED attempt
  /\ UNCHANGED <<max_retries, tried, slept, connOthers>>

\* self.client.connect(...) of one attempt and the except clause it ends in
ConnectTries ==
  /\ cpc = "connect"
  /\ \E outcome \in ConnectOutcomes :
       /\ tried' = Append(tried, outcome)
       /\ cpc' = IF outcome = "ok" THEN "True"
                 ELSE IF outcome = "auth" THEN "False"
                 ELSE IF attempt < max_retries THEN "sleep"
                 ELSE "False"
  /\ UNCHANGED <<max_retries, attempt, slept, connOthers>>

\* time.sleep(delay), then the next attempt
ConnectSleeps ==
  /\ cpc = "sleep"
  /\ slept' = Append(slept, RetryDelay(attempt))
  /\ attempt' = attempt + 1
  /\ cpc' = "connect"
  /\ UNCHANGED <<max_retries, tried, connOthers>>

\* an invoker has been constructed with some max_retries and connect() is
\* about to run
InitConnect ==
  /\ StoreIdle
  /\ LedgerIdle
  /\ WorkIdle
  /\ LoopIdle
  /\ StartIdle
  /\ HbIdle
  /\ PureIdle
  /\ max_retries \in 0..MaxRetries
  /\ attempt = 0
  /\ cpc = "called"
  /\ tried = <<>>
  /\ slept = <<>>

NextConnect ==
  \/ ConnectCalled
  \/ ConnectTries
  \/ ConnectSleeps

SpecConnect == InitConnect /\ [][NextConnect]_vars

ConnectReturned == cpc \in {"True", "False"}
OtherFailure(o) == o \in {"timeout", "refused"}

\* C40: connect makes at most max_retries attempts; an attempt that
\* succeeds or fails with an authentication error is the last one, and
\* connect returns true for the first and false for the second; every
\* earlier attempt failed otherwise and was followed by a sleep of 5 times
\* its number, and nothing else is slept; false is also returned after
\* max_retries attempts that failed otherwise.
C40_ConnectRetries ==
  /\ Len(tried) <= max_retries
  /\ \A k \in 1..Len(tried) :
       k < Len(tried) => OtherFailure(tried[k])
  /\ \A k \in 1..Len(slept) :
       /\ slept[k] = 5 * k
       /\ k < max_retries
       /\ k <= Len(tried) /\ OtherFailure(tried[k])
  /\ cpc = "connect" => Len(slept) = Len(tried)
  /\ ConnectReturned =>
       /\ Len(slept) = IF tried = <<>> THEN 0 ELSE Len(tried) - 1
       /\ cpc = "True" <=> (tried # <<>> /\ tried[Len(tried)] = "ok")
       /\ cpc = "False" <=>
            \/ tried # <<>> /\ tried[Len(tried)] = "auth"
            \/ /\ Len(tried) = max_retries
               /\ \A k \in 1..Len(tried) : OtherFailure(tried[k])
\* three attempts failed without an authentication error: sleeps of 5 and 10
\* seconds, then false
C40_Witness ==
  /\ max_retries = 3
  /\ cpc = "False"
  /\ Len(tried) = 3
  /\ OtherFailure(tried[3])
  /\ slept = <<5, 10>>

====
